---- MODULE Spec2Model ----
(***************************************************************************)
(* Model of google-calendar-line-notifier: the Lambda handler computes the *)
(* two target dates, NotifyScheduleUseCase.Execute fetches the events of   *)
(* both days through GoogleCalendarRepository.GetEvents (which normalises  *)
(* every provider event with convertToEvent) and, unless both lists are    *)
(* empty, sends one LINE push message.                                     *)
(*                                                                         *)
(* Time values are Go time.Time values: an instant in seconds since the    *)
(* Unix epoch plus the UTC offset (seconds) of the attached location.      *)
(* Strings that Go parses (RFC3339 timestamps, dates) are records of their *)
(* written fields, so that parsing is a computation and not the identity.  *)
(*                                                                         *)
(* Spec is one invocation, with one action per collaborator call of        *)
(* Execute; pc ends at "setupFailed" when the handler returns before it    *)
(* calls Execute, at "done" when Execute returns and at "panicked" when    *)
(* a nil dereference in convertToEvent unwinds the call.  SpecConvert      *)
(* applies convertToEvent to every provider event of RawEvents.            *)
(* SpecNotify calls SendScheduleNotification twice on the same pair of     *)
(* event lists, with any clock and any answer of the endpoint.  SpecLegacy *)
(* is the invocation of the earlier handler of cmd/main.go, which goes     *)
(* through internal/calendar and internal/line_notifier.                   *)
(***************************************************************************)
EXTENDS Integers, Sequences, FiniteSets, TLC

VARIABLES
    pc,             \* position of the invocation
    timezone,       \* GoogleCalendarRepository.timezone (UTC offset, s)
    today,          \* handler: today, passed to Execute
    tomorrow,       \* handler: tomorrow, passed to Execute
    todayRes,       \* result of calendarRepo.GetEvents(ctx, today)
    tomorrowRes,    \* result of calendarRepo.GetEvents(ctx, tomorrow)
    listCalls,      \* calls made to EventsProvider.ListEvents, in order
    sendCalls,      \* calls made to Notifier.SendScheduleNotification
    pushRequests,   \* requests handed to httpClient.Do by sendPushMessage
    ret,            \* handler: skipped, err of Execute, or the set-up error
    now,            \* handler: time.Now() of the invocation
    rawEvent,       \* convertToEvent: the provider event under conversion
    converted,      \* convertToEvent: its result
    eventsToday,    \* Execute: todayEvents, the first list of the notifier
    eventsTomorrow, \* Execute: tomorrowEvents, the second list
    ctxDone,        \* handler: ctx is cancelled or past its deadline
    env,            \* the environment of the process
    cfg             \* handler: cfg, err of config.Load()

vars == <<pc, timezone, today, tomorrow, todayRes, tomorrowRes, listCalls,
          sendCalls, pushRequests, ret, now, rawEvent, converted,
          eventsToday, eventsTomorrow,
          ctxDone, env, cfg>>

---------------------------------------------------------------------------
(* Bounds *)

\* largest number of items one ListEvents response carries in the model
MaxItems == 2

---------------------------------------------------------------------------
(* Go's time package, as far as the program uses it *)

SecondsPerDay == 86400

UTC == 0
\* time.LoadLocation("Asia/Tokyo"): fixed +09:00, no daylight saving
AsiaTokyo == 32400

\* days from 1970-01-01 to day d of the month with index mp (0 is March)
\* of the March-based year yy
DaysFromShifted(yy, mp, d) ==
    (yy \div 400) * 146097
    + (yy % 400) * 365 + (yy % 400) \div 4 - (yy % 400) \div 100
    + (153 * mp + 2) \div 5 + d - 1
    - 719468

\* days from 1970-01-01 to the civil date y-m-d; like time.Date it accepts a
\* day past the end of the month and normalises it into the next month
DaysFromCivil(y, m, d) ==
    DaysFromShifted(IF m <= 2 THEN y - 1 ELSE y,
                    IF m > 2 THEN m - 3 ELSE m + 9, d)

\* the civil date from the 400-year era, the year of the era, the day of
\* the March-based year and the index of its month
CivilOfMonth(era, yoe, doy, mp) ==
    [y |-> yoe + era * 400 + (IF mp < 10 THEN 0 ELSE 1),
     m |-> IF mp < 10 THEN mp + 3 ELSE mp - 9,
     d |-> doy - (153 * mp + 2) \div 5 + 1]

CivilOfDay(era, yoe, doy) ==
    CivilOfMonth(era, yoe, doy, (5 * doy + 2) \div 153)

CivilOfYear(era, doe, yoe) ==
    CivilOfDay(era, yoe, doe - (365 * yoe + yoe \div 4 - yoe \div 100))

CivilOfEra(era, doe) ==
    CivilOfYear(era, doe,
        (doe - doe \div 1460 + doe \div 36524 - doe \div 146096) \div 365)

\* the civil date of the day z days after 1970-01-01
CivilFromDays(z) ==
    CivilOfEra((z + 719468) \div 146097, (z + 719468) % 146097)

\* time.Date(y, m, d, hh, mi, ss, 0, loc)
Date(y, m, d, hh, mi, ss, loc) ==
    [unix |-> DaysFromCivil(y, m, d) * SecondsPerDay
              + hh * 3600 + mi * 60 + ss - loc,
     loc  |-> loc]

\* t.In(loc): the same instant, shown in loc
In(t, loc) == [unix |-> t.unix, loc |-> loc]

\* t.Add(d), d in seconds
Add(t, d) == [unix |-> t.unix + d, loc |-> t.loc]

\* wall-clock seconds of t in its own location
Wall(t) == t.unix + t.loc

Civil(t)  == CivilFromDays(Wall(t) \div SecondsPerDay)
Year(t)   == Civil(t).y
Month(t)  == Civil(t).m
Day(t)    == Civil(t).d
Hour(t)   == (Wall(t) % SecondsPerDay) \div 3600
Minute(t) == (Wall(t) % 3600) \div 60
Second(t) == Wall(t) % 60

\* the zero time.Time of a zero domain.Event (never read by the program)
ZeroTime == [unix |-> 0, loc |-> UTC]

---------------------------------------------------------------------------
(* Strings the program parses.  k tells how the text is written: "empty"  *)
(* is "", "rfc3339" is a timestamp y-m-dThh:mi:ss+off, "date" is y-m-d,    *)
(* "malformed" is any other text.                                          *)

EmptyStr  == [k |-> "empty", y |-> 0, m |-> 0, d |-> 0,
              hh |-> 0, mi |-> 0, ss |-> 0, off |-> 0]
Malformed == [k |-> "malformed", y |-> 0, m |-> 0, d |-> 0,
              hh |-> 0, mi |-> 0, ss |-> 0, off |-> 0]
Timestamp(y, m, d, hh, mi, ss, off) ==
    [k |-> "rfc3339", y |-> y, m |-> m, d |-> d,
     hh |-> hh, mi |-> mi, ss |-> ss, off |-> off]
DateOnly(y, m, d) ==
    [k |-> "date", y |-> y, m |-> m, d |-> d,
     hh |-> 0, mi |-> 0, ss |-> 0, off |-> 0]

\* time.Parse(time.RFC3339, s): the instant written in s, in a location
\* that has the offset written in s
ParseRFC3339(s) ==
    IF s.k = "rfc3339"
    THEN [ok |-> TRUE, t |-> Date(s.y, s.m, s.d, s.hh, s.mi, s.ss, s.off)]
    ELSE [ok |-> FALSE, t |-> ZeroTime]

\* t.Format(time.RFC3339): the wall clock of t and the offset of its location
FormatRFC3339(t) ==
    Timestamp(Year(t), Month(t), Day(t), Hour(t), Minute(t), Second(t), t.loc)

\* time.Parse("2006-01-02", s): the layout has no zone, so the result is
\* 00:00:00 of that date in UTC
ParseDate(s) ==
    IF s.k = "date"
    THEN [ok |-> TRUE, t |-> Date(s.y, s.m, s.d, 0, 0, 0, UTC)]
    ELSE [ok |-> FALSE, t |-> ZeroTime]

---------------------------------------------------------------------------
(* domain.Event and the provider's calendar.Event *)

\* a Go error: its message, and for a rejected push the status and detail
Error(msg, status, detail) == [msg |-> msg, status |-> status, detail |-> detail]
NoErr == Error("nil", 0, "")

\* the placeholder title (U+FF08 U+7121 U+984C U+FF09 in the source)
Untitled == "(untitled)"

ErrStartParse     == Error("start time parse failed", 0, "")
ErrStartDateParse == Error("start date parse failed", 0, "")
ErrStartMissing   == Error("start time is not set", 0, "")
ErrEndParse       == Error("end time parse failed", 0, "")
ErrEndDateParse   == Error("end date parse failed", 0, "")
ErrEndMissing     == Error("end time is not set", 0, "")

ZeroEvent ==
    [ID |-> "", Title |-> "", StartTime |-> ZeroTime, EndTime |-> ZeroTime,
     IsAllDay |-> FALSE, Location |-> "", Description |-> ""]

\* *calendar.EventDateTime: nil, or a struct with DateTime and Date
NilEventDateTime == [present |-> FALSE, DateTime |-> EmptyStr, Date |-> EmptyStr]
EventDateTime(dateTime, date) ==
    [present |-> TRUE, DateTime |-> dateTime, Date |-> date]

\* faulty variant: the summary is copied and an empty one is not replaced
resolveTitle_Unchanged(summary) == summary

\* the title of the normalised event
resolveTitle(summary) == IF summary = "" THEN Untitled ELSE summary

\* faulty variant: the parsed time keeps the zone written in the source
timedBoundary_KeepSourceZone(t, tz) == t

\* a parsed RFC3339 boundary, converted to the repository's timezone
timedBoundary(t, tz) == In(t, tz)

\* a parsed date-only boundary, converted to the repository's timezone
dateBoundary(t, tz) == In(t, tz)

\* the start of the event: DateTime first, then Date, else an error;
\* dereferencing a nil Start panics
resolveStart(edt, tz) ==
    IF ~edt.present
    THEN [status |-> "panic", err |-> NoErr, t |-> ZeroTime, allDay |-> FALSE]
    ELSE IF edt.DateTime.k # "empty"
    THEN LET p == ParseRFC3339(edt.DateTime)
         IN  IF ~p.ok
             THEN [status |-> "err", err |-> ErrStartParse,
                   t |-> ZeroTime, allDay |-> FALSE]
             ELSE [status |-> "ok", err |-> NoErr,
                   t |-> timedBoundary(p.t, tz), allDay |-> FALSE]
    ELSE IF edt.Date.k # "empty"
    THEN LET p == ParseDate(edt.Date)
         IN  IF ~p.ok
             THEN [status |-> "err", err |-> ErrStartDateParse,
                   t |-> ZeroTime, allDay |-> FALSE]
             ELSE [status |-> "ok", err |-> NoErr,
                   t |-> dateBoundary(p.t, tz), allDay |-> TRUE]
    ELSE [status |-> "err", err |-> ErrStartMissing,
          t |-> ZeroTime, allDay |-> FALSE]

\* faulty variant: without the final else branch an end that has neither
\* field is taken for a date and resolves to the zero time
resolveEnd_NoMissingCheck(edt, tz) ==
    IF ~edt.present
    THEN [status |-> "panic", err |-> NoErr, t |-> ZeroTime]
    ELSE IF edt.DateTime.k # "empty"
    THEN LET p == ParseRFC3339(edt.DateTime)
         IN  IF ~p.ok
             THEN [status |-> "err", err |-> ErrEndParse, t |-> ZeroTime]
             ELSE [status |-> "ok", err |-> NoErr, t |-> timedBoundary(p.t, tz)]
    ELSE LET p == ParseDate(edt.Date)
         IN  IF ~p.ok /\ edt.Date.k # "empty"
             THEN [status |-> "err", err |-> ErrEndDateParse, t |-> ZeroTime]
             ELSE [status |-> "ok", err |-> NoErr, t |-> dateBoundary(p.t, tz)]

\* the end of the event, resolved the same way; it never sets IsAllDay
resolveEnd(edt, tz) ==
    IF ~edt.present
    THEN [status |-> "panic", err |-> NoErr, t |-> ZeroTime]
    ELSE IF edt.DateTime.k # "empty"
    THEN LET p == ParseRFC3339(edt.DateTime)
         IN  IF ~p.ok
             THEN [status |-> "err", err |-> ErrEndParse, t |-> ZeroTime]
             ELSE [status |-> "ok", err |-> NoErr, t |-> timedBoundary(p.t, tz)]
    ELSE IF edt.Date.k # "empty"
    THEN LET p == ParseDate(edt.Date)
         IN  IF ~p.ok
             THEN [status |-> "err", err |-> ErrEndDateParse, t |-> ZeroTime]
             ELSE [status |-> "ok", err |-> NoErr, t |-> dateBoundary(p.t, tz)]
    ELSE [status |-> "err", err |-> ErrEndMissing, t |-> ZeroTime]

\* faulty variant: an end given as a date makes the event an all-day event
convertToEvent_AllDayFromEnd(event, tz) ==
    IF resolveStart(event.Start, tz).status # "ok"
    THEN [status |-> resolveStart(event.Start, tz).status,
          err |-> resolveStart(event.Start, tz).err, ev |-> ZeroEvent]
    ELSE IF resolveEnd(event.End, tz).status # "ok"
    THEN [status |-> resolveEnd(event.End, tz).status,
          err |-> resolveEnd(event.End, tz).err, ev |-> ZeroEvent]
    ELSE [status |-> "ok", err |-> NoErr,
          ev |-> [ID          |-> event.Id,
                  Title       |-> resolveTitle(event.Summary),
                  StartTime   |-> resolveStart(event.Start, tz).t,
                  EndTime     |-> resolveEnd(event.End, tz).t,
                  IsAllDay    |-> \/ resolveStart(event.Start, tz).allDay
                                  \/ event.End.DateTime.k = "empty",
                  Location    |-> event.Location,
                  Description |-> event.Description]]

\* GoogleCalendarRepository.convertToEvent: status "ok" with the event,
\* "err" with the error and a zero event, or "panic" (nil dereference)
convertToEvent(event, tz) ==
    LET s == resolveStart(event.Start, tz)
        e == resolveEnd(event.End, tz)
    IN  IF s.status # "ok"
        THEN [status |-> s.status, err |-> s.err, ev |-> ZeroEvent]
        ELSE IF e.status # "ok"
        THEN [status |-> e.status, err |-> e.err, ev |-> ZeroEvent]
        ELSE [status |-> "ok", err |-> NoErr,
              ev |-> [ID          |-> event.Id,
                      Title       |-> resolveTitle(event.Summary),
                      StartTime   |-> s.t,
                      EndTime     |-> e.t,
                      IsAllDay    |-> s.allDay,
                      Location    |-> event.Location,
                      Description |-> event.Description]]

---------------------------------------------------------------------------
(* GoogleCalendarRepository.GetEvents *)

ErrListEvents == Error("calendar events could not be fetched", 0, "")

\* the loop over the provider's items: events that convert are appended in
\* order, events whose conversion returns an error are skipped with a
\* warning, and a panic in a conversion ends the loop and the call
RECURSIVE convertItems(_, _, _)
convertItems(items, tz, acc) ==
    IF items = <<>>
    THEN [status |-> "ok", events |-> acc]
    ELSE LET c == convertToEvent(Head(items), tz)
         IN  IF c.status = "panic"
             THEN [status |-> "panic", events |-> <<>>]
             ELSE IF c.status = "err"
             THEN convertItems(Tail(items), tz, acc)
             ELSE convertItems(Tail(items), tz, Append(acc, c.ev))

\* faulty variant: the window ends at 23:59:59 of the target date
queryWindow_InclusiveEnd(targetDate) ==
    [timeMin |-> FormatRFC3339(Date(Year(targetDate), Month(targetDate),
                                    Day(targetDate), 0, 0, 0, AsiaTokyo)),
     timeMax |-> FormatRFC3339(Date(Year(targetDate), Month(targetDate),
                                    Day(targetDate), 23, 59, 59, AsiaTokyo))]

\* the query window of GetEvents: 00:00:00 of the target date in JST and
\* the instant 24 hours later, both written as RFC3339
queryWindow(targetDate) ==
    LET startTimeInJST == Date(Year(targetDate), Month(targetDate),
                               Day(targetDate), 0, 0, 0, AsiaTokyo)
        endTimeInJST   == Add(startTimeInJST, 24 * 3600)
    IN  [timeMin |-> FormatRFC3339(startTimeInJST),
         timeMax |-> FormatRFC3339(endTimeInJST)]

\* GetEvents(ctx, targetDate) on a repository with timezone tz, when the
\* provider answers resp = [failed, items] to the one ListEvents call
GetEvents(targetDate, tz, resp) ==
    LET call == queryWindow(targetDate)
    IN  IF resp.failed
        THEN [status |-> "err", err |-> ErrListEvents, events |-> <<>>,
              call |-> call, items |-> resp.items]
        ELSE LET r == convertItems(resp.items, tz, <<>>)
             IN  [status |-> r.status, err |-> NoErr, events |-> r.events,
                  call |-> call, items |-> resp.items]

\* no call made yet
NoResult ==
    [status |-> "none", err |-> NoErr, events |-> <<>>,
     call |-> [timeMin |-> EmptyStr, timeMax |-> EmptyStr], items |-> <<>>]

---------------------------------------------------------------------------
(* Inputs *)

\* America/Bogota: fixed -05:00, no daylight saving
AmericaBogota == -18000

Zones == {AsiaTokyo, UTC, AmericaBogota}

\* the timezones the repository of an invocation is constructed with
RepositoryZones == {AsiaTokyo, AmericaBogota}

DateTimeStrings ==
    {EmptyStr, Malformed,
     Timestamp(2024, 1, 15, 10, 0, 0, AsiaTokyo),
     Timestamp(2024, 1, 15, 23, 30, 0, UTC),
     Timestamp(2024, 2, 29, 20, 15, 0, AmericaBogota)}

DateStrings ==
    {EmptyStr, Malformed, DateOnly(2024, 1, 15), DateOnly(2024, 12, 31)}

EventDateTimes ==
    {NilEventDateTime}
    \cup {EventDateTime(dt, d) : dt \in DateTimeStrings, d \in DateStrings}

calendarEvent(id, summary, location, start, end) ==
    [Id |-> id, Summary |-> summary, Location |-> location,
     Description |-> "", Start |-> start, End |-> end]

\* every provider event the conversion is tried on
RawEvents ==
    {calendarEvent("e", su, lo, st, en) :
        su \in {"", "Team Meeting"}, lo \in {"", "Room A"},
        st \in EventDateTimes, en \in EventDateTimes}

NoConversion == [status |-> "none", err |-> NoErr, ev |-> ZeroEvent]

---------------------------------------------------------------------------
(* LINENotifier.  A message is the sequence of the pieces written to the   *)
(* strings.Builder, in order; "\n" is a newline.  ASCII stands for the     *)
(* Japanese words and symbols of the source: "Today " and "Next day " for  *)
(* the two day labels, "Nichi".."Do" for the one-character weekday names,  *)
(* " events):" for the counter suffix, ": no events" for the empty day,    *)
(* "(all day)" for the all-day marker, "* " for the bullet and "   @ " for *)
(* the location marker.                                                    *)

\* t.Weekday(): 0 is Sunday; 1970-01-01 was a Thursday
Weekday(t) == ((Wall(t) \div SecondsPerDay) + 4) % 7

getWeekdayJapanese(weekday) ==
    <<"Nichi", "Getsu", "Ka", "Sui", "Moku", "Kin", "Do">>[weekday + 1]

Pad2(n) == IF n < 10 THEN "0" \o ToString(n) ELSE ToString(n)

\* t.Format("1/2")
FormatMonthDay(t) == ToString(Month(t)) \o "/" \o ToString(Day(t))

\* t.Format("15:04")
FormatHourMinute(t) == Pad2(Hour(t)) \o ":" \o Pad2(Minute(t))

\* faulty variant: the location line is never written
appendEventToMessage_NoLocation(event) ==
    IF event.IsAllDay
    THEN <<"* ", event.Title, " (all day)", "\n">>
    ELSE <<"* ", FormatHourMinute(event.StartTime), "~",
           FormatHourMinute(event.EndTime), " ", event.Title, "\n">>

appendEventToMessage(event) ==
    (IF event.IsAllDay
     THEN <<"* ", event.Title, " (all day)", "\n">>
     ELSE <<"* ", FormatHourMinute(event.StartTime), "~",
            FormatHourMinute(event.EndTime), " ", event.Title, "\n">>)
    \o (IF event.Location # ""
        THEN <<"   @ ", event.Location, "\n">>
        ELSE <<>>)

\* faulty variant: the events are written last to first
RECURSIVE appendEvents_Reversed(_)
appendEvents_Reversed(events) ==
    IF events = <<>> THEN <<>>
    ELSE appendEvents_Reversed(Tail(events))
         \o appendEventToMessage(Head(events))

RECURSIVE appendEvents(_)
appendEvents(events) ==
    IF events = <<>> THEN <<>>
    ELSE appendEventToMessage(Head(events)) \o appendEvents(Tail(events))

\* faulty variant: a day with one event is reported as a day without
daySection_FewAsNone(label, day, events) ==
    IF Len(events) > 1
    THEN <<label, FormatMonthDay(day), "(", getWeekdayJapanese(Weekday(day)),
           ") (", ToString(Len(events)), " events):", "\n">>
         \o appendEvents(events)
    ELSE <<label, FormatMonthDay(day), "(", getWeekdayJapanese(Weekday(day)),
           ")", ": no events", "\n">>

\* one day's section: a header with the count and the events, or one line
\* saying that there are none
daySection(label, day, events) ==
    IF Len(events) > 0
    THEN <<label, FormatMonthDay(day), "(", getWeekdayJapanese(Weekday(day)),
           ") (", ToString(Len(events)), " events):", "\n">>
         \o appendEvents(events)
    ELSE <<label, FormatMonthDay(day), "(", getWeekdayJapanese(Weekday(day)),
           ")", ": no events", "\n">>

\* buildScheduleMessage when n.clock() returns clock
buildScheduleMessage(todayEvents, tomorrowEvents, clock) ==
    LET day0 == In(clock, AsiaTokyo)
        day1 == Add(day0, 24 * 3600)
    IN  <<"Google Calendar LINE Notifier", "\n", "\n">>
        \o daySection("Today ", day0, todayEvents)
        \o <<"\n", "\n">>
        \o daySection("Next day ", day1, tomorrowEvents)

\* the configuration of the notifier
channelAccessToken == "token"
userID == "user"

StatusOK == 200

ErrPushTransport == "LINE API request could not be sent"
ErrPushUnparsed  == "LINE API call failed, response not parseable"
ErrPushRejected  == "LINE API call failed"

\* faulty variant: the token is sent without the Bearer scheme, and the
\* message goes out twice in one payload
pushRequest_BareToken(message) ==
    [Method        |-> "POST",
     To            |-> userID,
     Messages      |-> << [Type |-> "text", Text |-> message],
                         [Type |-> "text", Text |-> message] >>,
     ContentType   |-> "application/json",
     Authorization |-> channelAccessToken]

\* the request sendPushMessage builds for a message
pushRequest(message) ==
    [Method        |-> "POST",
     To            |-> userID,
     Messages      |-> << [Type |-> "text", Text |-> message] >>,
     ContentType   |-> "application/json",
     Authorization |-> "Bearer " \o channelAccessToken]

\* faulty variant: a failed request is sent a second time
requestsSent_RetryOnFailure(req, resp) ==
    IF resp.transportFailed \/ resp.status # StatusOK
    THEN <<req, req>> ELSE <<req>>

\* the requests one sendPushMessage call hands to httpClient.Do
requestsSent(req, resp) == <<req>>

\* the body of a response: nothing, text that is not JSON, or the JSON of
\* a lineErrorResponse
EmptyBody == [k |-> "empty", message |-> "", details |-> <<>>]
TextBody  == [k |-> "text", message |-> "", details |-> <<>>]
JSONBody(message, details) ==
    [k |-> "json", message |-> message, details |-> details]

\* json.NewDecoder(resp.Body).Decode(&errorResponse): the decoded struct,
\* or the decoder's error
Decode(body) ==
    IF body.k = "json"
    THEN [ok |-> TRUE, Message |-> body.message, Details |-> body.details,
          err |-> ""]
    ELSE [ok |-> FALSE, Message |-> "", Details |-> <<>>,
          err |-> IF body.k = "empty" THEN "EOF" ELSE "invalid character"]

\* faulty variant: the last detail is appended, not the first
errorDetails_LastDetail(errorResponse) ==
    IF Len(errorResponse.Details) > 0
    THEN errorResponse.Message \o " (detail: "
         \o errorResponse.Details[Len(errorResponse.Details)] \o ")"
    ELSE errorResponse.Message

\* errorDetails: the message of the body, and its first detail if any
errorDetails(errorResponse) ==
    IF Len(errorResponse.Details) > 0
    THEN errorResponse.Message \o " (detail: "
         \o errorResponse.Details[1] \o ")"
    ELSE errorResponse.Message

\* faulty variant: a rejection whose body does not parse passes for success
pushError_UnparsedIgnored(resp) ==
    IF resp.transportFailed
    THEN Error(ErrPushTransport, 0, "")
    ELSE IF resp.status # StatusOK /\ Decode(resp.body).ok
    THEN Error(ErrPushRejected, resp.status, errorDetails(Decode(resp.body)))
    ELSE NoErr

\* the error sendPushMessage returns when the endpoint answers resp
pushError(resp) ==
    IF resp.transportFailed
    THEN Error(ErrPushTransport, 0, "")
    ELSE IF resp.status # StatusOK
    THEN IF ~Decode(resp.body).ok
         THEN Error(ErrPushUnparsed, resp.status, Decode(resp.body).err)
         ELSE Error(ErrPushRejected, resp.status,
                    errorDetails(Decode(resp.body)))
    ELSE NoErr

\* httpClient.Do on a request built with NewRequestWithContext(ctx, ...):
\* once ctx is done the client returns an error and no response
doAnswers(done, answers) ==
    IF done THEN {a \in answers : a.transportFailed} ELSE answers

sendPushMessage(message, resp) ==
    LET req == pushRequest(message)
    IN  [requests |-> requestsSent(req, resp), err |-> pushError(resp)]

\* SendScheduleNotification: build the message, push it
SendScheduleNotification(todayEvents, tomorrowEvents, clock, resp) ==
    sendPushMessage(buildScheduleMessage(todayEvents, tomorrowEvents, clock),
                    resp)

PushResponse(transportFailed, status, body) ==
    [transportFailed |-> transportFailed, status |-> status, body |-> body]

\* what the messaging endpoint may answer
PushResponses ==
    {PushResponse(TRUE, 0, EmptyBody),
     PushResponse(FALSE, 200, JSONBody("", <<>>)),
     PushResponse(FALSE, 400, JSONBody("Invalid request", <<>>)),
     PushResponse(FALSE, 400,
                  JSONBody("Invalid request", <<"bad to", "bad text">>)),
     PushResponse(FALSE, 500, TextBody)}

\* further answers: a success status other than 200 without body, a
\* rejection whose JSON has no message, and a 200 whose body is not JSON
NotifyResponses ==
    PushResponses
    \cup {PushResponse(FALSE, 204, EmptyBody),
          PushResponse(FALSE, 404, JSONBody("", <<>>)),
          PushResponse(FALSE, 200, TextBody)}

\* the provider events of the invocations: a timed event with a location,
\* an all-day event, a timed event without title, an event whose start has
\* neither field, and an event without start object
RawSample ==
    {calendarEvent("e1", "Team Meeting", "Room A",
        EventDateTime(Timestamp(2024, 1, 15, 9, 0, 0, AsiaTokyo), EmptyStr),
        EventDateTime(Timestamp(2024, 1, 15, 10, 30, 0, AsiaTokyo), EmptyStr)),
     calendarEvent("e2", "Prep", "",
        EventDateTime(EmptyStr, DateOnly(2024, 1, 15)),
        EventDateTime(EmptyStr, DateOnly(2024, 1, 16))),
     calendarEvent("e3", "", "Online",
        EventDateTime(Timestamp(2024, 1, 16, 5, 0, 0, UTC), EmptyStr),
        EventDateTime(Timestamp(2024, 1, 16, 6, 0, 0, UTC), EmptyStr)),
     calendarEvent("e4", "No Start Time", "",
        EventDateTime(EmptyStr, EmptyStr),
        EventDateTime(Timestamp(2024, 1, 15, 11, 0, 0, AsiaTokyo), EmptyStr)),
     calendarEvent("e5", "No Start Object", "",
        NilEventDateTime,
        EventDateTime(Timestamp(2024, 1, 15, 11, 0, 0, AsiaTokyo), EmptyStr))}

SeqsUpTo(S, n) == UNION {[1..k -> S] : k \in 0..n}

\* what EventsProvider.ListEvents may answer
ListResponses ==
    {[failed |-> TRUE, items |-> <<>>]}
    \cup {[failed |-> FALSE, items |-> items] :
            items \in SeqsUpTo(RawSample, MaxItems)}

\* the instants at which the handler may run
Nows ==
    {Date(2024, 1, 14, 22, 0, 0, UTC), Date(2024, 12, 31, 14, 30, 0, UTC)}

\* seconds that may pass between the handler's time.Now() and the clock
\* reading of buildScheduleMessage
Delays == {0, 3600}

---------------------------------------------------------------------------
(* config.Load and the construction of the repository.  A string of the    *)
(* environment is the sequence of its pieces: words and white space        *)
(* characters; the unset variable reads as the empty string.               *)

Whitespace == {" ", "\t", "\n"}

RECURSIVE TrimLeft(_)
TrimLeft(s) ==
    IF s # <<>> /\ Head(s) \in Whitespace THEN TrimLeft(Tail(s)) ELSE s

RECURSIVE TrimRight(_)
TrimRight(s) ==
    IF s # <<>> /\ s[Len(s)] \in Whitespace
    THEN TrimRight(SubSeq(s, 1, Len(s) - 1))
    ELSE s

\* strings.TrimSpace
TrimSpace(s) == TrimRight(TrimLeft(s))

\* the environment of the process: its variables, the parameters of the
\* Parameter Store it can read, and the names its timezone database knows
Environment(variables, params, zoneinfo) ==
    [vars |-> variables, params |-> params, zoneinfo |-> zoneinfo]

\* faulty variant: the value is taken as it stands
getEnvOrDefault_Untrimmed(e, key, defaultValue) ==
    IF e.vars[key] # <<>> THEN e.vars[key] ELSE defaultValue

\* getEnvOrDefault(key, defaultValue) in the environment e
getEnvOrDefault(e, key, defaultValue) ==
    IF TrimSpace(e.vars[key]) # <<>>
    THEN TrimSpace(e.vars[key])
    ELSE defaultValue

\* *Config: nil, or the struct
NilConfig == [present |-> FALSE]
Config(googleCredentials, calendarID, lineChannelAccessToken, lineUserID) ==
    [present                |-> TRUE,
     GoogleCredentials      |-> googleCredentials,
     CalendarID             |-> calendarID,
     LineChannelAccessToken |-> lineChannelAccessToken,
     LineUserID             |-> lineUserID]

ErrEnvNotSet      == "environment variable is not set"
ErrParameterStore == "loading from the Parameter Store failed"
ErrJSTLoad        == "JST timezone could not be loaded"
ErrCredentials    == "google credentials could not be read"

\* loadLocalConfig in the environment e
loadLocalConfig(e) ==
    IF getEnvOrDefault(e, "GOOGLE_CREDENTIALS", <<>>) = <<>>
    THEN [cfg |-> NilConfig,
          err |-> Error(ErrEnvNotSet, 0, "GOOGLE_CREDENTIALS")]
    ELSE IF getEnvOrDefault(e, "LINE_CHANNEL_ACCESS_TOKEN", <<>>) = <<>>
    THEN [cfg |-> NilConfig,
          err |-> Error(ErrEnvNotSet, 0, "LINE_CHANNEL_ACCESS_TOKEN")]
    ELSE IF getEnvOrDefault(e, "LINE_USER_ID", <<>>) = <<>>
    THEN [cfg |-> NilConfig,
          err |-> Error(ErrEnvNotSet, 0, "LINE_USER_ID")]
    ELSE [cfg |-> Config(getEnvOrDefault(e, "GOOGLE_CREDENTIALS", <<>>),
                         getEnvOrDefault(e, "CALENDAR_ID", <<"primary">>),
                         getEnvOrDefault(e, "LINE_CHANNEL_ACCESS_TOKEN", <<>>),
                         getEnvOrDefault(e, "LINE_USER_ID", <<>>)),
          err |-> NoErr]

\* a parameter the store does not hold, or holds without value
NoParameter == <<"<nil>">>

\* the default names of the four parameters
GoogleCredsParam == "/google-calendar-line-notifier/google-creds"
LineTokenParam   == "/google-calendar-line-notifier/line-channel-access-token"
LineUserIdParam  == "/google-calendar-line-notifier/line-user-id"
CalendarIdParam  == "/google-calendar-line-notifier/calendar-id"

\* getParameter(ctx, paramName, withDecryption) in the environment e
getParameter(e, paramName) ==
    IF e.params[paramName] = NoParameter
    THEN [value |-> <<>>, err |-> Error(ErrParameterStore, 0, paramName)]
    ELSE IF TrimSpace(e.params[paramName]) = <<>>
    THEN [value |-> <<>>, err |-> Error(ErrParameterStore, 0, paramName)]
    ELSE [value |-> TrimSpace(e.params[paramName]), err |-> NoErr]

\* loadAWSConfig with loadFromParameterStore: the four parameters in turn,
\* the first failure ends the loading
loadAWSConfig(e) ==
    IF getParameter(e, GoogleCredsParam).err # NoErr
    THEN [cfg |-> NilConfig, err |-> getParameter(e, GoogleCredsParam).err]
    ELSE IF getParameter(e, LineTokenParam).err # NoErr
    THEN [cfg |-> NilConfig, err |-> getParameter(e, LineTokenParam).err]
    ELSE IF getParameter(e, LineUserIdParam).err # NoErr
    THEN [cfg |-> NilConfig, err |-> getParameter(e, LineUserIdParam).err]
    ELSE IF getParameter(e, CalendarIdParam).err # NoErr
    THEN [cfg |-> NilConfig, err |-> getParameter(e, CalendarIdParam).err]
    ELSE [cfg |-> Config(getParameter(e, GoogleCredsParam).value,
                         getParameter(e, CalendarIdParam).value,
                         getParameter(e, LineTokenParam).value,
                         getParameter(e, LineUserIdParam).value),
          err |-> NoErr]

\* config.Load
Load(e) ==
    IF e.vars["AWS_LAMBDA_FUNCTION_NAME"] # <<>>
    THEN loadAWSConfig(e)
    ELSE loadLocalConfig(e)

\* time.LoadLocation(name) with the timezone database zoneinfo
LoadLocation(name, zoneinfo) ==
    IF name \in {"", "UTC"}
    THEN [ok |-> TRUE, loc |-> UTC]
    ELSE IF name \notin zoneinfo
    THEN [ok |-> FALSE, loc |-> UTC]
    ELSE IF name = "Asia/Tokyo"
    THEN [ok |-> TRUE, loc |-> AsiaTokyo]
    ELSE [ok |-> TRUE, loc |-> AmericaBogota]

\* faulty variant: without the database the repository is built with UTC
NewGoogleCalendarRepository_FallsBackToUTC(c, e) ==
    IF c.GoogleCredentials # <<"{credentials}">>
    THEN Error(ErrCredentials, 0, "")
    ELSE NoErr

\* the error of NewGoogleCalendarRepository(credentialsJSON, calendarID)
NewGoogleCalendarRepository(c, e) ==
    IF ~LoadLocation("Asia/Tokyo", e.zoneinfo).ok
    THEN Error(ErrJSTLoad, 0, "")
    ELSE IF c.GoogleCredentials # <<"{credentials}">>
    THEN Error(ErrCredentials, 0, "")
    ELSE NoErr

\* the values a variable or a parameter may hold
ValueSamples(word) ==
    {<<>>, <<" ">>, <<"\t", "\n">>, <<" ", word, "\n">>, <<word>>}

Zoneinfo == {"Asia/Tokyo", "America/Bogota"}

LocalVars(creds, token, user) ==
    [k \in {"AWS_LAMBDA_FUNCTION_NAME", "GOOGLE_CREDENTIALS", "CALENDAR_ID",
            "LINE_CHANNEL_ACCESS_TOKEN", "LINE_USER_ID", "TIMEZONE"}
       |-> CASE k = "GOOGLE_CREDENTIALS" -> creds
             [] k = "LINE_CHANNEL_ACCESS_TOKEN" -> token
             [] k = "LINE_USER_ID" -> user
             [] OTHER -> <<>>]

LambdaVars ==
    [k \in {"AWS_LAMBDA_FUNCTION_NAME", "GOOGLE_CREDENTIALS", "CALENDAR_ID",
            "LINE_CHANNEL_ACCESS_TOKEN", "LINE_USER_ID", "TIMEZONE"}
       |-> IF k = "AWS_LAMBDA_FUNCTION_NAME" THEN <<"notifier">> ELSE <<>>]

Params(creds, token, user, calendar) ==
    [n \in {GoogleCredsParam, LineTokenParam, LineUserIdParam, CalendarIdParam}
       |-> CASE n = GoogleCredsParam -> creds
             [] n = LineTokenParam -> token
             [] n = LineUserIdParam -> user
             [] OTHER -> calendar]

NoParams == Params(NoParameter, NoParameter, NoParameter, NoParameter)

\* the environments config.Load is looked at in: a development machine
\* with any values of the three variables, a Lambda with any values of the
\* three secret parameters
Environments ==
    {Environment(LocalVars(c, t, u), NoParams, Zoneinfo) :
        c \in ValueSamples("{credentials}"), t \in ValueSamples("token"),
        u \in ValueSamples("user")}
    \cup {Environment(LambdaVars, Params(c, t, u, <<"primary">>), Zoneinfo) :
            c \in ValueSamples("{credentials}") \cup {NoParameter},
            t \in ValueSamples("token") \cup {NoParameter},
            u \in ValueSamples("user") \cup {NoParameter}}

\* the environments of the invocations: a complete one, one per missing
\* value, one whose credentials are not JSON, one without timezone database
HandlerEnvironments ==
    {Environment(LocalVars(<<"{credentials}">>, <<" ", "token", "\n">>,
                           <<"user">>), NoParams, Zoneinfo),
     Environment(LocalVars(<<>>, <<"token">>, <<"user">>), NoParams, Zoneinfo),
     Environment(LocalVars(<<"{credentials}">>, <<" ">>, <<"user">>),
                 NoParams, Zoneinfo),
     Environment(LocalVars(<<"{credentials}">>, <<"token">>, <<"\t", "\n">>),
                 NoParams, Zoneinfo),
     Environment(LambdaVars,
                 Params(<<"{credentials}">>, <<" ">>, <<"user">>,
                        <<"primary">>), Zoneinfo),
     Environment(LocalVars(<<"not JSON">>, <<"token">>, <<"user">>),
                 NoParams, Zoneinfo),
     Environment(LocalVars(<<"{credentials}">>, <<"token">>, <<"user">>),
                 NoParams, {})}

---------------------------------------------------------------------------
(* NotifyScheduleUseCase.Execute, one action per collaborator call *)

\* faulty variant: the error of GetEvents is ignored
retrievalAborts_Never(res) == FALSE

\* if err != nil { return false, err } after a GetEvents call
retrievalAborts(res) == res.status = "err"

\* faulty variant: the lists are compared with nil, which GetEvents never
\* returns without an error
ShouldSkip_NilSlices(todayEvents, tomorrowEvents) == FALSE

\* the skip condition
ShouldSkip(todayEvents, tomorrowEvents) ==
    Len(todayEvents) = 0 /\ Len(tomorrowEvents) = 0

\* faulty variant: the two lists are passed in the wrong order
notifierArgs_Swapped(todayEvents, tomorrowEvents) ==
    [todayEvents |-> tomorrowEvents, tomorrowEvents |-> todayEvents]

\* the arguments Execute passes to SendScheduleNotification
notifierArgs(todayEvents, tomorrowEvents) ==
    [todayEvents |-> todayEvents, tomorrowEvents |-> tomorrowEvents]

\* faulty variant: the delivery error is logged and not returned
returnAfterSend_Swallowed(err) == [skipped |-> FALSE, err |-> NoErr]

\* what Execute returns after SendScheduleNotification returned err
returnAfterSend(err) == [skipped |-> FALSE, err |-> err]

NoReturn == [skipped |-> FALSE, err |-> NoErr]

\* before the handler has run
NotLoaded == [cfg |-> NilConfig, err |-> NoErr]

\* the environment of the calls that are looked at outside a handler
NoEnvironment == Environment(LocalVars(<<>>, <<>>, <<>>), NoParams, Zoneinfo)

\* handler: the error of config.Load or, with a configuration, that of
\* NewGoogleCalendarRepository
setupError(e) ==
    IF Load(e).err # NoErr
    THEN Load(e).err
    ELSE NewGoogleCalendarRepository(Load(e).cfg, e)

\* handler: load the configuration and build the repository; with both,
\* read the clock and compute the two target dates in JST
handler ==
    /\ pc = "start"
    /\ cfg' = Load(env)
    /\ IF setupError(env) # NoErr
       THEN /\ pc' = "setupFailed"
            /\ ret' = [skipped |-> FALSE, err |-> setupError(env)]
            /\ UNCHANGED <<now, today, tomorrow>>
       ELSE /\ \E n \in Nows :
                 LET t == In(n, AsiaTokyo)
                 IN  /\ now' = t
                     /\ today' =
                          Date(Year(t), Month(t), Day(t), 0, 0, 0, AsiaTokyo)
                     /\ tomorrow' =
                          Date(Year(t), Month(t), Day(t) + 1, 0, 0, 0,
                               AsiaTokyo)
            /\ pc' = "fetchToday"
            /\ ret' = ret
    /\ UNCHANGED <<timezone, todayRes, tomorrowRes, listCalls, sendCalls,
                   pushRequests, rawEvent, converted,
                   eventsToday, eventsTomorrow, ctxDone, env>>

\* Execute: todayEvents, err := uc.calendarRepo.GetEvents(ctx, today)
ExecuteFetchToday ==
    /\ pc = "fetchToday"
    /\ \E resp \in ListResponses :
         LET r == GetEvents(today, timezone, resp)
         IN  /\ todayRes' = r
             /\ eventsToday' = r.events
             /\ listCalls' = Append(listCalls, r.call)
             /\ IF r.status = "panic"
                THEN pc' = "panicked" /\ ret' = ret
                ELSE IF retrievalAborts(r)
                THEN pc' = "done" /\ ret' = [skipped |-> FALSE, err |-> r.err]
                ELSE pc' = "fetchTomorrow" /\ ret' = ret
    /\ UNCHANGED <<timezone, today, tomorrow, tomorrowRes, sendCalls,
                   pushRequests, now, rawEvent, converted, eventsTomorrow,
                   ctxDone, env, cfg>>

\* faulty variant: tomorrow's events are fetched without waiting for today's
ExecuteFetchTomorrow_BeforeToday ==
    /\ pc = "fetchToday"
    /\ tomorrowRes.status = "none"
    /\ \E resp \in ListResponses :
         /\ tomorrowRes' = GetEvents(tomorrow, timezone, resp)
         /\ eventsTomorrow' = GetEvents(tomorrow, timezone, resp).events
         /\ listCalls' =
              Append(listCalls, GetEvents(tomorrow, timezone, resp).call)
    /\ UNCHANGED <<pc, ret, timezone, today, tomorrow, todayRes, sendCalls,
                   pushRequests, now, rawEvent, converted, eventsToday,
                   ctxDone, env, cfg>>

\* Execute: tomorrowEvents, err := uc.calendarRepo.GetEvents(ctx, tomorrow)
ExecuteFetchTomorrow ==
    /\ pc = "fetchTomorrow"
    /\ \E resp \in ListResponses :
         LET r == GetEvents(tomorrow, timezone, resp)
         IN  /\ tomorrowRes' = r
             /\ eventsTomorrow' = r.events
             /\ listCalls' = Append(listCalls, r.call)
             /\ IF r.status = "panic"
                THEN pc' = "panicked" /\ ret' = ret
                ELSE IF retrievalAborts(r)
                THEN pc' = "done" /\ ret' = [skipped |-> FALSE, err |-> r.err]
                ELSE pc' = "notify" /\ ret' = ret
    /\ UNCHANGED <<timezone, today, tomorrow, todayRes, sendCalls,
                   pushRequests, now, rawEvent, converted, eventsToday,
                   ctxDone, env, cfg>>

\* Execute: the skip check and, unless it skips, SendScheduleNotification
ExecuteNotify ==
    /\ pc = "notify"
    /\ IF ShouldSkip(eventsToday, eventsTomorrow)
       THEN /\ ret' = [skipped |-> TRUE, err |-> NoErr]
            /\ UNCHANGED <<sendCalls, pushRequests>>
       ELSE \E resp \in doAnswers(ctxDone, PushResponses),
               delay \in Delays :
              LET args == notifierArgs(eventsToday, eventsTomorrow)
                  s    == SendScheduleNotification(args.todayEvents,
                              args.tomorrowEvents, Add(now, delay), resp)
              IN  /\ sendCalls' = Append(sendCalls,
                        [todayEvents    |-> args.todayEvents,
                         tomorrowEvents |-> args.tomorrowEvents,
                         clock          |-> Add(now, delay),
                         resp           |-> resp,
                         err            |-> s.err])
                  /\ pushRequests' = pushRequests \o s.requests
                  /\ ret' = returnAfterSend(s.err)
    /\ pc' = "done"
    /\ UNCHANGED <<timezone, today, tomorrow, todayRes, tomorrowRes,
                   listCalls, now, rawEvent, converted,
                   eventsToday, eventsTomorrow,
                   ctxDone, env, cfg>>

\* the context of the invocation is cancelled, or its deadline passes, while
\* the handler runs
Cancel ==
    /\ pc \in {"start", "fetchToday", "fetchTomorrow", "notify"}
    /\ ~ctxDone
    /\ ctxDone' = TRUE
    /\ UNCHANGED <<pc, timezone, today, tomorrow, todayRes, tomorrowRes,
                   listCalls, sendCalls, pushRequests, ret, now, rawEvent,
                   converted, eventsToday, eventsTomorrow,
                   env, cfg>>

Init ==
    /\ pc = "start"
    /\ timezone \in RepositoryZones
    /\ today = ZeroTime
    /\ tomorrow = ZeroTime
    /\ now = ZeroTime
    /\ todayRes = NoResult
    /\ tomorrowRes = NoResult
    /\ listCalls = <<>>
    /\ sendCalls = <<>>
    /\ pushRequests = <<>>
    /\ ret = NoReturn
    /\ rawEvent = calendarEvent("", "", "", NilEventDateTime, NilEventDateTime)
    /\ converted = NoConversion
    /\ eventsToday = <<>>
    /\ eventsTomorrow = <<>>
    /\ ctxDone = FALSE
    /\ env \in HandlerEnvironments
    /\ cfg = NotLoaded

Next ==
    \/ handler
    \/ ExecuteFetchToday
    \/ ExecuteFetchTomorrow
    \/ ExecuteNotify
    \/ Cancel

Spec == Init /\ [][Next]_vars

---------------------------------------------------------------------------
(* convertToEvent on its own: every provider event, every timezone *)

InitConvert ==
    /\ pc = "convert"
    /\ timezone \in Zones
    /\ rawEvent \in RawEvents
    /\ converted = NoConversion
    /\ today = ZeroTime
    /\ tomorrow = ZeroTime
    /\ now = ZeroTime
    /\ todayRes = NoResult
    /\ tomorrowRes = NoResult
    /\ listCalls = <<>>
    /\ sendCalls = <<>>
    /\ pushRequests = <<>>
    /\ ret = NoReturn
    /\ eventsToday = <<>>
    /\ eventsTomorrow = <<>>
    /\ ctxDone = FALSE
    /\ env = NoEnvironment
    /\ cfg = NotLoaded

Convert ==
    /\ pc = "convert"
    /\ converted' = convertToEvent(rawEvent, timezone)
    /\ pc' = "converted"
    /\ UNCHANGED <<timezone, today, tomorrow, todayRes, tomorrowRes,
                   listCalls, sendCalls, pushRequests, ret, now, rawEvent,
                   eventsToday, eventsTomorrow,
                   ctxDone, env, cfg>>

NextConvert == Convert

SpecConvert == InitConvert /\ [][NextConvert]_vars

---------------------------------------------------------------------------
(* The earlier snapshot of the program: the handler that calls             *)
(* calendar.Client and line_notifier.Notifier itself (second handler of    *)
(* cmd/main.go).  Its convertToEvent and sendPushMessage read as those of  *)
(* the gateway package and share their definitions.  ASCII stands for the  *)
(* Japanese text of its message: "Schedule of today (" for the header,     *)
(* "[cal] Today" and "[cal] Tomorrow " for the day labels, "Have a nice    *)
(* day" for the footer; Go writes the weekday in English ("Mon").          *)

\* days from 0001-01-01, the zero time of Go, to 1970-01-01
DaysToUnixEpoch == 719162

\* t.Truncate(d), d in seconds: t rounded down to a multiple of d since the
\* zero time, which is a midnight in UTC; the location of t plays no part
Truncate(t, d) ==
    [unix |-> t.unix
              - (((t.unix % d)
                  + (((DaysToUnixEpoch % d) * (SecondsPerDay % d)) % d)) % d),
     loc  |-> t.loc]

\* calendar.Client.GetEvents: the window runs from 00:00:00 of the date of
\* startTime to 23:59:59 of the date of endTime, in the client's timezone
legacyQueryWindow(startTime, endTime, tz) ==
    [timeMin |-> FormatRFC3339(Date(Year(startTime), Month(startTime),
                                    Day(startTime), 0, 0, 0, tz)),
     timeMax |-> FormatRFC3339(Date(Year(endTime), Month(endTime),
                                    Day(endTime), 23, 59, 59, tz))]

\* calendar.Client.GetEvents(ctx, startTime, endTime) on a client with
\* timezone tz, when the service answers resp to the one Events.List call
legacyGetEvents(startTime, endTime, tz, resp) ==
    LET call == legacyQueryWindow(startTime, endTime, tz)
    IN  IF resp.failed
        THEN [status |-> "err", err |-> ErrListEvents, events |-> <<>>,
              call |-> call, items |-> resp.items]
        ELSE LET r == convertItems(resp.items, tz, <<>>)
             IN  [status |-> r.status, err |-> NoErr, events |-> r.events,
                  call |-> call, items |-> resp.items]

\* t.Format("Mon")
FormatWeekday(t) ==
    <<"Sun", "Mon", "Tue", "Wed", "Thu", "Fri", "Sat">>[Weekday(t) + 1]

\* line_notifier.Notifier.buildScheduleMessage when time.Now() returns clock
legacyBuildScheduleMessage(todayEvents, tomorrowEvents, clock) ==
    LET day0 == In(clock, AsiaTokyo)
        day1 == Add(day0, 24 * 3600)
    IN  <<"Schedule of today (", FormatMonthDay(day0), " ",
          FormatWeekday(day0), ")", "\n", "\n">>
        \o (IF Len(todayEvents) > 0
            THEN <<"[cal] Today", " (", ToString(Len(todayEvents)),
                   " events):", "\n">> \o appendEvents(todayEvents)
            ELSE <<"[cal] Today", ": no events", "\n">>)
        \o <<"\n">>
        \o (IF Len(tomorrowEvents) > 0
            THEN <<"[cal] Tomorrow ", FormatMonthDay(day1), " ",
                   FormatWeekday(day1), " (", ToString(Len(tomorrowEvents)),
                   " events):", "\n">> \o appendEvents(tomorrowEvents)
            ELSE <<"[cal] Tomorrow ", FormatMonthDay(day1), " ",
                   FormatWeekday(day1), ": no events", "\n">>)
        \o <<"\n", "Have a nice day">>

\* line_notifier.Notifier.SendScheduleNotification
legacySendScheduleNotification(todayEvents, tomorrowEvents, clock, resp) ==
    sendPushMessage(
        legacyBuildScheduleMessage(todayEvents, tomorrowEvents, clock), resp)

\* the provider events of the earlier snapshot's invocations
LegacySample == {ev \in RawSample : ev.Id \in {"e1", "e2"}}

LegacyListResponses ==
    {[failed |-> TRUE, items |-> <<>>]}
    \cup {[failed |-> FALSE, items |-> items] :
            items \in SeqsUpTo(LegacySample, MaxItems)}

\* the instants at which the earlier handler may run: before and after
\* 09:00 in Japan, at the ends of a month and of the year
LegacyNows ==
    {Date(2024, 1, 14, 22, 0, 0, UTC), Date(2024, 1, 15, 1, 0, 0, UTC),
     Date(2024, 2, 29, 14, 59, 59, UTC), Date(2024, 2, 29, 15, 0, 0, UTC),
     Date(2024, 8, 22, 23, 59, 59, UTC), Date(2024, 8, 23, 0, 0, 0, UTC),
     Date(2024, 12, 31, 14, 30, 0, UTC), Date(2024, 12, 31, 15, 0, 0, UTC)}

\* Config.Timezone of the earlier config package: TIMEZONE, or Asia/Tokyo
legacyTimezone(e) == getEnvOrDefault(e, "TIMEZONE", <<"Asia/Tokyo">>)

\* the name a string of the environment spells
ZoneName(v) == IF Len(v) = 1 THEN v[1] ELSE "<not a zone name>"

ErrTimezoneLoad == "timezone could not be loaded"

\* calendar.NewClient(cfg): the location of cfg.Timezone, or the error
NewClient(c, e) ==
    IF ~LoadLocation(ZoneName(legacyTimezone(e)), e.zoneinfo).ok
    THEN [timezone |-> UTC, err |-> Error(ErrTimezoneLoad, 0, "")]
    ELSE IF c.GoogleCredentials # <<"{credentials}">>
    THEN [timezone |-> UTC, err |-> Error(ErrCredentials, 0, "")]
    ELSE [timezone |-> LoadLocation(ZoneName(legacyTimezone(e)),
                                    e.zoneinfo).loc,
          err |-> NoErr]

\* handler: the error of config.Load or, with a configuration, that of
\* calendar.NewClient
legacySetupError(e) ==
    IF loadLocalConfig(e).err # NoErr
    THEN loadLocalConfig(e).err
    ELSE NewClient(loadLocalConfig(e).cfg, e).err

\* the environments of the earlier handler's invocations, all of them
\* development machines: TIMEZONE unset, a zone of the database, a name
\* the database does not know, and one without credentials
LegacyVars(creds, zone) ==
    [LocalVars(creds, <<"token">>, <<"user">>) EXCEPT !["TIMEZONE"] = zone]

LegacyEnvironments ==
    {Environment(LegacyVars(<<"{credentials}">>, <<>>), NoParams, Zoneinfo),
     Environment(LegacyVars(<<"{credentials}">>, <<"America/Bogota", "\n">>),
                 NoParams, Zoneinfo),
     Environment(LegacyVars(<<"{credentials}">>, <<"Mars/Olympus">>),
                 NoParams, Zoneinfo),
     Environment(LegacyVars(<<>>, <<>>), NoParams, Zoneinfo)}

\* handler: load the configuration and build the client; with both, read
\* the clock and truncate it to a multiple of 24 hours
legacyHandler ==
    /\ pc = "legacyStart"
    /\ cfg' = loadLocalConfig(env)
    /\ IF legacySetupError(env) # NoErr
       THEN /\ pc' = "setupFailed"
            /\ ret' = [skipped |-> FALSE, err |-> legacySetupError(env)]
            /\ UNCHANGED <<timezone, now, today, tomorrow>>
       ELSE /\ timezone' = NewClient(loadLocalConfig(env).cfg, env).timezone
            /\ \E n \in LegacyNows :
                 /\ now' = In(n, AsiaTokyo)
                 /\ today' = Truncate(In(n, AsiaTokyo), 24 * 3600)
                 /\ tomorrow' =
                      Add(Truncate(In(n, AsiaTokyo), 24 * 3600), 24 * 3600)
            /\ pc' = "legacyFetchToday"
            /\ ret' = ret
    /\ UNCHANGED <<todayRes, tomorrowRes, listCalls, sendCalls,
                   pushRequests, rawEvent, converted,
                   eventsToday, eventsTomorrow, ctxDone, env>>

\* handler: calendarClient.GetEvents(ctx, today, today.Add(24*time.Hour))
legacyFetchToday ==
    /\ pc = "legacyFetchToday"
    /\ \E resp \in LegacyListResponses :
         LET r == legacyGetEvents(today, Add(today, 24 * 3600), timezone, resp)
         IN  /\ todayRes' = r
             /\ eventsToday' = r.events
             /\ listCalls' = Append(listCalls, r.call)
             /\ IF r.status = "panic"
                THEN pc' = "panicked" /\ ret' = ret
                ELSE IF r.status = "err"
                THEN pc' = "done" /\ ret' = [skipped |-> FALSE, err |-> r.err]
                ELSE pc' = "legacyFetchTomorrow" /\ ret' = ret
    /\ UNCHANGED <<timezone, today, tomorrow, tomorrowRes, sendCalls,
                   pushRequests, now, rawEvent, converted, eventsTomorrow,
                   ctxDone, env, cfg>>

\* handler: calendarClient.GetEvents(ctx, tomorrow, tomorrow.Add(24*time.Hour))
legacyFetchTomorrow ==
    /\ pc = "legacyFetchTomorrow"
    /\ \E resp \in LegacyListResponses :
         LET r == legacyGetEvents(tomorrow, Add(tomorrow, 24 * 3600),
                                  timezone, resp)
         IN  /\ tomorrowRes' = r
             /\ eventsTomorrow' = r.events
             /\ listCalls' = Append(listCalls, r.call)
             /\ IF r.status = "panic"
                THEN pc' = "panicked" /\ ret' = ret
                ELSE IF r.status = "err"
                THEN pc' = "done" /\ ret' = [skipped |-> FALSE, err |-> r.err]
                ELSE pc' = "legacyNotify" /\ ret' = ret
    /\ UNCHANGED <<timezone, today, tomorrow, todayRes, sendCalls,
                   pushRequests, now, rawEvent, converted, eventsToday,
                   ctxDone, env, cfg>>

\* handler: the skip check and lineNotifier.SendScheduleNotification
legacyNotify ==
    /\ pc = "legacyNotify"
    /\ IF Len(eventsToday) = 0 /\ Len(eventsTomorrow) = 0
       THEN /\ ret' = [skipped |-> TRUE, err |-> NoErr]
            /\ UNCHANGED <<sendCalls, pushRequests>>
       ELSE \E resp \in doAnswers(ctxDone, PushResponses),
               delay \in Delays :
              LET s == legacySendScheduleNotification(eventsToday,
                           eventsTomorrow, Add(now, delay), resp)
              IN  /\ sendCalls' = Append(sendCalls,
                        [todayEvents    |-> eventsToday,
                         tomorrowEvents |-> eventsTomorrow,
                         clock          |-> Add(now, delay),
                         resp           |-> resp,
                         err            |-> s.err])
                  /\ pushRequests' = pushRequests \o s.requests
                  /\ ret' = [skipped |-> FALSE, err |-> s.err]
    /\ pc' = "done"
    /\ UNCHANGED <<timezone, today, tomorrow, todayRes, tomorrowRes,
                   listCalls, now, rawEvent, converted,
                   eventsToday, eventsTomorrow,
                   ctxDone, env, cfg>>

InitLegacy ==
    /\ pc = "legacyStart"
    /\ timezone = UTC
    /\ today = ZeroTime
    /\ tomorrow = ZeroTime
    /\ now = ZeroTime
    /\ todayRes = NoResult
    /\ tomorrowRes = NoResult
    /\ listCalls = <<>>
    /\ sendCalls = <<>>
    /\ pushRequests = <<>>
    /\ ret = NoReturn
    /\ rawEvent = calendarEvent("", "", "", NilEventDateTime, NilEventDateTime)
    /\ converted = NoConversion
    /\ eventsToday = <<>>
    /\ eventsTomorrow = <<>>
    /\ ctxDone = FALSE
    /\ env \in LegacyEnvironments
    /\ cfg = NotLoaded

NextLegacy ==
    \/ legacyHandler
    \/ legacyFetchToday
    \/ legacyFetchTomorrow
    \/ legacyNotify

SpecLegacy == InitLegacy /\ [][NextLegacy]_vars

---------------------------------------------------------------------------
(* LINENotifier.SendScheduleNotification on its own: every pair of lists   *)
(* over the sample events, in every order, sent twice over.                *)

domainEvent(id, title, startTime, endTime, isAllDay, location) ==
    [ID |-> id, Title |-> title, StartTime |-> startTime,
     EndTime |-> endTime, IsAllDay |-> isAllDay, Location |-> location,
     Description |-> ""]

\* events of the first list: timed with a location, all-day, timed without
TodaySample ==
    {domainEvent("t1", "Team Meeting", Date(2025, 8, 17, 9, 0, 0, AsiaTokyo),
                 Date(2025, 8, 17, 10, 30, 0, AsiaTokyo), FALSE, "Room A"),
     domainEvent("t2", "Prep", Date(2025, 8, 17, 0, 0, 0, AsiaTokyo),
                 Date(2025, 8, 18, 0, 0, 0, AsiaTokyo), TRUE, ""),
     domainEvent("t3", "Lunch", Date(2025, 8, 17, 12, 5, 0, AsiaTokyo),
                 Date(2025, 8, 17, 13, 0, 0, AsiaTokyo), FALSE, "")}

\* events of the second list: timed with a location, all-day with a location
TomorrowSample ==
    {domainEvent("n1", "Client Meeting",
                 Date(2025, 8, 18, 14, 0, 0, AsiaTokyo),
                 Date(2025, 8, 18, 15, 0, 0, AsiaTokyo), FALSE, "Online"),
     domainEvent("n2", "Offsite", Date(2025, 8, 18, 0, 0, 0, AsiaTokyo),
                 Date(2025, 8, 19, 0, 0, 0, AsiaTokyo), TRUE, "Kyoto")}

\* what n.clock() may return: a Sunday morning in Japan, read in UTC, and
\* the last half hour of a year
NotifyClocks ==
    {Date(2025, 8, 16, 21, 0, 0, UTC), Date(2024, 12, 31, 23, 30, 0, AsiaTokyo)}

\* one call of SendScheduleNotification with the two lists
Notify ==
    /\ pc \in {"notifier", "notifiedOnce"}
    /\ \E resp \in doAnswers(ctxDone, NotifyResponses),
          clock \in NotifyClocks :
         LET s == SendScheduleNotification(eventsToday, eventsTomorrow,
                                           clock, resp)
         IN  /\ sendCalls' = Append(sendCalls,
                   [todayEvents    |-> eventsToday,
                    tomorrowEvents |-> eventsTomorrow,
                    clock          |-> clock,
                    resp           |-> resp,
                    err            |-> s.err])
             /\ pushRequests' = pushRequests \o s.requests
    /\ pc' = IF pc = "notifier" THEN "notifiedOnce" ELSE "notifiedTwice"
    /\ UNCHANGED <<timezone, today, tomorrow, todayRes, tomorrowRes,
                   listCalls, ret, now, rawEvent, converted,
                   eventsToday, eventsTomorrow,
                   ctxDone, env, cfg>>

InitNotify ==
    /\ pc = "notifier"
    /\ eventsToday \in SeqsUpTo(TodaySample, MaxItems)
    /\ eventsTomorrow \in SeqsUpTo(TomorrowSample, MaxItems)
    /\ timezone = AsiaTokyo
    /\ today = ZeroTime
    /\ tomorrow = ZeroTime
    /\ now = ZeroTime
    /\ todayRes = NoResult
    /\ tomorrowRes = NoResult
    /\ listCalls = <<>>
    /\ sendCalls = <<>>
    /\ pushRequests = <<>>
    /\ ret = NoReturn
    /\ rawEvent = calendarEvent("", "", "", NilEventDateTime, NilEventDateTime)
    /\ converted = NoConversion
    /\ ctxDone = FALSE
    /\ env = NoEnvironment
    /\ cfg = NotLoaded

NextNotify == Notify

SpecNotify == InitNotify /\ [][NextNotify]_vars

---------------------------------------------------------------------------
(* Properties of Execute (specification Spec) *)

BothRetrieved == todayRes.status = "ok" /\ tomorrowRes.status = "ok"

\* C1: when both retrievals succeed and both returned lists are empty,
\* Execute returns skipped = true with a nil error, and
\* SendScheduleNotification is not invoked (nothing is rendered or pushed).
C1_SkipWhenBothEmpty ==
    (/\ pc = "done"
     /\ BothRetrieved
     /\ todayRes.events = <<>>
     /\ tomorrowRes.events = <<>>)
    => /\ ret = [skipped |-> TRUE, err |-> NoErr]
       /\ sendCalls = <<>>
       /\ pushRequests = <<>>

C1_Witness ==
    /\ pc = "done"
    /\ BothRetrieved
    /\ todayRes.events = <<>>
    /\ tomorrowRes.events = <<>>
    /\ ret.skipped

\* C2: when the retrieval of either day fails, Execute has returned that
\* retrieval's error with skipped = false, and SendScheduleNotification is
\* not invoked: nothing is sent for the day that was fetched.
C2_RetrievalFailureAborts ==
    \A res \in {todayRes, tomorrowRes} :
        res.status = "err"
        => /\ pc = "done"
           /\ ret = [skipped |-> FALSE, err |-> res.err]
           /\ res.err # NoErr
           /\ sendCalls = <<>>
           /\ pushRequests = <<>>

C2_Witness ==
    /\ tomorrowRes.status = "err"
    /\ todayRes.status = "ok"
    /\ todayRes.events # <<>>
    /\ pc = "done"

\* C3: when both retrievals succeed and at least one list is non-empty,
\* Execute invokes SendScheduleNotification exactly once, with the list
\* returned for today first and the list returned for tomorrow second,
\* both unmodified; when the delivery succeeds Execute returns
\* skipped = false and a nil error.  Before Execute has come that far the
\* notifier has not been invoked.
C3_NotifyOnceWithBothLists ==
    /\ pc # "done" => sendCalls = <<>>
    /\ (/\ pc = "done"
        /\ BothRetrieved
        /\ (todayRes.events # <<>> \/ tomorrowRes.events # <<>>))
       => /\ Len(sendCalls) = 1
          /\ sendCalls[1].todayEvents = todayRes.events
          /\ sendCalls[1].tomorrowEvents = tomorrowRes.events
          /\ (sendCalls[1].err = NoErr
              => ret = [skipped |-> FALSE, err |-> NoErr])

C3_Witness ==
    /\ pc = "done"
    /\ BothRetrieved
    /\ Len(sendCalls) = 1
    /\ sendCalls[1].todayEvents # sendCalls[1].tomorrowEvents
    /\ sendCalls[1].todayEvents # <<>>
    /\ sendCalls[1].err = NoErr
    /\ ret = [skipped |-> FALSE, err |-> NoErr]

\* the three outcomes of a call of Execute that has returned
Skipped ==
    /\ ret.skipped
    /\ ret.err = NoErr
    /\ sendCalls = <<>>
    /\ pushRequests = <<>>

Delivered ==
    /\ ~ret.skipped
    /\ ret.err = NoErr
    /\ Len(sendCalls) = 1
    /\ Len(pushRequests) = 1
    /\ ~sendCalls[1].resp.transportFailed
    /\ sendCalls[1].resp.status = StatusOK

Failed ==
    /\ ~ret.skipped
    /\ ret.err # NoErr
    /\ \/ todayRes.status = "err" /\ ret.err = todayRes.err
       \/ tomorrowRes.status = "err" /\ ret.err = tomorrowRes.err
       \/ /\ Len(sendCalls) = 1
          /\ sendCalls[1].err # NoErr
          /\ ret.err = sendCalls[1].err

C5_NoRetry ==
    /\ Len(listCalls) <= 2
    /\ Cardinality({i \in 1..Len(listCalls) :
                      listCalls[i] = queryWindow(today)}) <= 1
    /\ Cardinality({i \in 1..Len(listCalls) :
                      listCalls[i] = queryWindow(tomorrow)}) <= 1
    /\ Len(pushRequests) <= 1

C5_Witness ==
    /\ pc = "done"
    /\ Len(listCalls) = 2
    /\ listCalls[1] = queryWindow(today)
    /\ listCalls[2] = queryWindow(tomorrow)
    /\ Len(pushRequests) = 1
    /\ ret.err # NoErr

---------------------------------------------------------------------------
(* Properties of convertToEvent (specification SpecConvert) *)

\* the instant a well-formed RFC3339 text denotes, in seconds since the epoch
WrittenInstant(s) ==
    DaysFromCivil(s.y, s.m, s.d) * SecondsPerDay
    + s.hh * 3600 + s.mi * 60 + s.ss - s.off

\* the start is written as a date only, and the date is well-formed
DateOnlyStart ==
    /\ rawEvent.Start.present
    /\ rawEvent.Start.DateTime.k = "empty"
    /\ rawEvent.Start.Date.k = "date"

\* the start is written as a well-formed full timestamp
TimestampStart ==
    /\ rawEvent.Start.present
    /\ rawEvent.Start.DateTime.k = "rfc3339"

\* C6: an event whose start carries only a date, and whose end resolves,
\* is converted to an event with IsAllDay = true whose StartTime is
\* 00:00:00 of that date in the configured timezone.
C6_AllDayStartsAtLocalMidnight ==
    (pc = "converted" /\ DateOnlyStart /\ converted.status = "ok")
    => /\ converted.ev.IsAllDay
       /\ converted.ev.StartTime =
            Date(rawEvent.Start.Date.y, rawEvent.Start.Date.m,
                 rawEvent.Start.Date.d, 0, 0, 0, timezone)

\* C7: an event whose start carries a well-formed full timestamp, and whose
\* end resolves, is converted to an event with IsAllDay = false whose
\* StartTime (and EndTime, when the end is a timestamp too) is the instant
\* written in the source, shown in the configured timezone whatever offset
\* the source text carried.
C7_TimedKeepsInstantInConfiguredZone ==
    (pc = "converted" /\ TimestampStart /\ converted.status = "ok")
    => /\ ~converted.ev.IsAllDay
       /\ converted.ev.StartTime.unix = WrittenInstant(rawEvent.Start.DateTime)
       /\ converted.ev.StartTime.loc = timezone
       /\ rawEvent.End.DateTime.k = "rfc3339"
          => /\ converted.ev.EndTime.unix = WrittenInstant(rawEvent.End.DateTime)
             /\ converted.ev.EndTime.loc = timezone

C7_Witness ==
    /\ pc = "converted"
    /\ TimestampStart
    /\ converted.status = "ok"
    /\ rawEvent.End.DateTime.k = "rfc3339"
    /\ rawEvent.Start.DateTime.off # timezone
    /\ rawEvent.End.DateTime.off # rawEvent.Start.DateTime.off
    /\ Day(converted.ev.StartTime) # rawEvent.Start.DateTime.d
    /\ ~converted.ev.IsAllDay

\* C8: the title of a converted event is the placeholder when the source
\* summary is empty and the summary itself otherwise, so it is never empty.
C8_TitlePlaceholder ==
    (pc = "converted" /\ converted.status = "ok")
    => /\ converted.ev.Title =
            (IF rawEvent.Summary = "" THEN Untitled ELSE rawEvent.Summary)
       /\ converted.ev.Title # ""

C8_Witness ==
    /\ pc = "converted"
    /\ converted.status = "ok"
    /\ rawEvent.Summary = ""
    /\ converted.ev.Title = Untitled

\* the start resolves: a well-formed timestamp, or no timestamp and a
\* well-formed date
StartResolves ==
    /\ rawEvent.Start.present
    /\ \/ rawEvent.Start.DateTime.k = "rfc3339"
       \/ /\ rawEvent.Start.DateTime.k = "empty"
          /\ rawEvent.Start.Date.k = "date"

\* C9: when the start has neither a timestamp nor a date the conversion
\* fails with the error that names the start; when the start resolves and
\* the end has neither, it fails with the error that names the end; in both
\* cases no event is returned and none enters the list GetEvents builds.
C9_MissingTimeField ==
    pc = "converted"
    => /\ (/\ rawEvent.Start.present
           /\ rawEvent.Start.DateTime.k = "empty"
           /\ rawEvent.Start.Date.k = "empty")
          => /\ converted.status = "err"
             /\ converted.err = ErrStartMissing
             /\ converted.ev = ZeroEvent
             /\ convertItems(<<rawEvent>>, timezone, <<>>).events = <<>>
       /\ (/\ StartResolves
           /\ rawEvent.End.present
           /\ rawEvent.End.DateTime.k = "empty"
           /\ rawEvent.End.Date.k = "empty")
          => /\ converted.status = "err"
             /\ converted.err = ErrEndMissing
             /\ converted.ev = ZeroEvent
             /\ convertItems(<<rawEvent>>, timezone, <<>>).events = <<>>

C9_Witness ==
    /\ pc = "converted"
    /\ StartResolves
    /\ rawEvent.Start.Date.k = "date"
    /\ rawEvent.End.present
    /\ rawEvent.End.DateTime.k = "empty"
    /\ rawEvent.End.Date.k = "empty"
    /\ converted.err = ErrEndMissing

---------------------------------------------------------------------------
(* Properties of GetEvents (specification Spec) *)

\* the events of items that convert, in the order of items
RECURSIVE NormalizedSubsequence(_, _)
NormalizedSubsequence(items, tz) ==
    IF items = <<>> THEN <<>>
    ELSE LET c == convertToEvent(Head(items), tz)
         IN  (IF c.status = "ok" THEN <<c.ev>> ELSE <<>>)
             \o NormalizedSubsequence(Tail(items), tz)

\* C10: a GetEvents call whose source query succeeded has returned, with a
\* nil error, exactly the events of the items that convert, in the source's
\* order; items that do not convert are dropped without effect on the rest.
C10_FailingEventsDropped ==
    \A res \in {todayRes, tomorrowRes} :
        res.status \notin {"none", "err"}
        => /\ res.status = "ok"
           /\ res.err = NoErr
           /\ res.events = NormalizedSubsequence(res.items, timezone)

\* res is the result of a GetEvents call whose source returned two items,
\* item i without start object and the other one, item j, a valid event
AbsentStartBesideValid(res, i, j) ==
    /\ res.status \notin {"none", "err"}
    /\ Len(res.items) = 2
    /\ i # j
    /\ ~res.items[i].Start.present
    /\ convertToEvent(res.items[j], timezone).status = "ok"

\* C11: when the source returns, for one day, one event without start
\* object together with one valid event, GetEvents completes normally and
\* returns exactly the valid event, and the invocation goes on.
C11_AbsentStartSkipped ==
    \A res \in {todayRes, tomorrowRes} : \A i, j \in 1..2 :
        AbsentStartBesideValid(res, i, j)
        => /\ res.status = "ok"
           /\ res.err = NoErr
           /\ res.events = <<convertToEvent(res.items[j], timezone).ev>>
           /\ pc # "panicked"

---------------------------------------------------------------------------
(* Properties of the query window (specification Spec) *)

\* the calendar date after y-m-d
NextCivilDate(y, m, d) == CivilFromDays(DaysFromCivil(y, m, d) + 1)

\* the window [00:00:00 of the date of D, 00:00:00 of the next date), both
\* written with the offset +09:00
ExclusiveWindowOf(D) ==
    [timeMin |-> Timestamp(Year(D), Month(D), Day(D), 0, 0, 0, AsiaTokyo),
     timeMax |-> Timestamp(NextCivilDate(Year(D), Month(D), Day(D)).y,
                           NextCivilDate(Year(D), Month(D), Day(D)).m,
                           NextCivilDate(Year(D), Month(D), Day(D)).d,
                           0, 0, 0, AsiaTokyo)]

\* target dates beside those of the invocations: the date of the example,
\* ends of months and of the year, leap and common February
TargetDates ==
    {Date(2024, 8, 23, 0, 0, 0, AsiaTokyo),
     Date(2024, 2, 28, 0, 0, 0, AsiaTokyo),
     Date(2024, 2, 29, 0, 0, 0, AsiaTokyo),
     Date(2023, 2, 28, 0, 0, 0, AsiaTokyo),
     Date(2024, 4, 30, 0, 0, 0, AsiaTokyo),
     Date(2024, 12, 31, 0, 0, 0, AsiaTokyo),
     Date(2024, 8, 23, 23, 59, 59, AsiaTokyo),
     Date(2024, 8, 23, 20, 0, 0, UTC)}

\* C12: for every target date D the one query of GetEvents carries
\* timeMin = 00:00:00 of D and timeMax = 00:00:00 of the date after D, both
\* written with the offset +09:00 whatever the timezone of the repository,
\* so the window is exactly 24 hours long; for 2024-08-23 it is
\* 2024-08-23T00:00:00+09:00 to 2024-08-24T00:00:00+09:00.  The dates of
\* TargetDates do not depend on the state and are looked at once, in the
\* initial state.
C12_ExclusiveDayWindow ==
    /\ todayRes.status # "none"
       => /\ todayRes.call = ExclusiveWindowOf(today)
          /\ listCalls[1] = todayRes.call
    /\ tomorrowRes.status # "none"
       => /\ tomorrowRes.call = ExclusiveWindowOf(tomorrow)
          /\ listCalls[2] = tomorrowRes.call
    /\ \A i \in 1..Len(listCalls) :
          /\ listCalls[i].timeMin.off = AsiaTokyo
          /\ listCalls[i].timeMax.off = AsiaTokyo
          /\ WrittenInstant(listCalls[i].timeMax)
             - WrittenInstant(listCalls[i].timeMin) = 24 * 3600
    /\ pc = "start"
       => /\ \A D \in TargetDates : queryWindow(D) = ExclusiveWindowOf(D)
          /\ queryWindow(Date(2024, 8, 23, 0, 0, 0, AsiaTokyo))
               = [timeMin |-> Timestamp(2024, 8, 23, 0, 0, 0, AsiaTokyo),
                  timeMax |-> Timestamp(2024, 8, 24, 0, 0, 0, AsiaTokyo)]

C12_Witness ==
    /\ pc = "done"
    /\ timezone = AmericaBogota
    /\ Len(listCalls) = 2
    /\ listCalls[1] = [timeMin |-> Timestamp(2024, 12, 31, 0, 0, 0, AsiaTokyo),
                       timeMax |-> Timestamp(2025, 1, 1, 0, 0, 0, AsiaTokyo)]
    /\ listCalls[2] = [timeMin |-> Timestamp(2025, 1, 1, 0, 0, 0, AsiaTokyo),
                       timeMax |-> Timestamp(2025, 1, 2, 0, 0, 0, AsiaTokyo)]

---------------------------------------------------------------------------
(* Properties of the handler's dates (specifications Spec and SpecLegacy) *)

\* the handler has computed its dates
DatesComputed ==
    pc \notin {"start", "setupFailed", "legacyStart", "convert", "converted"}

\* C13: for every invocation instant, today has the calendar date of the
\* instant in the +09:00 timezone and tomorrow the calendar date right after
\* it, across month and year ends too (which a truncation of the instant
\* to a multiple of 24 hours in UTC does not give).
C13_DatesFromJapanCalendar ==
    DatesComputed
    => /\ Civil(In(today, AsiaTokyo)) = Civil(In(now, AsiaTokyo))
       /\ Civil(In(tomorrow, AsiaTokyo))
            = NextCivilDate(Year(In(now, AsiaTokyo)), Month(In(now, AsiaTokyo)),
                            Day(In(now, AsiaTokyo)))

---------------------------------------------------------------------------
(* Properties of the rendered message (specifications SpecNotify and       *)
(* SpecLegacy).  The message of the i-th call is the text of the i-th      *)
(* push request.                                                           *)

Message(i) == pushRequests[i].Messages[1].Text

\* msg cut at its newlines: the lines that a newline ends, and what is left
\* after the last newline
RECURSIVE SplitLines(_, _, _)
SplitLines(msg, cur, acc) ==
    IF msg = <<>>
    THEN [lines |-> acc, rest |-> cur]
    ELSE IF Head(msg) = "\n"
    THEN SplitLines(Tail(msg), <<>>, Append(acc, cur))
    ELSE SplitLines(Tail(msg), Append(cur, Head(msg)), acc)

Lines(msg) == SplitLines(msg, <<>>, <<>>).lines

AfterLastNewline(msg) == SplitLines(msg, <<>>, <<>>).rest

BlankLines(L) == {i \in 1..Len(L) : L[i] = <<>>}

\* the lines one event takes: its bullet line, and a location line if it
\* has a location
LinesOfEvent(event) == IF event.Location # "" THEN 2 ELSE 1

RECURSIVE LinesOfEvents(_)
LinesOfEvents(events) ==
    IF events = <<>> THEN 0
    ELSE LinesOfEvent(Head(events)) + LinesOfEvents(Tail(events))

\* the lines of a day's section: its header, and the lines of its events
SectionLength(events) == 1 + LinesOfEvents(events)

\* L is: the fixed header line, one blank line, a section of lenA lines that
\* begins with the label of day A, two blank lines, a section of lenB lines
\* that begins with the label of day B, and nothing more
TwoSections(L, lenA, lenB) ==
    /\ Len(L) = 2 + lenA + 2 + lenB
    /\ L[1] = <<"Google Calendar LINE Notifier">>
    /\ BlankLines(L) = {2, 3 + lenA, 4 + lenA}
    /\ L[3][1] = "Today "
    /\ L[5 + lenA][1] = "Next day "

\* the first example of README.md: its inputs, read on Sunday 2025-08-17,
\* and its text
ReadmeToday ==
    <<domainEvent("t1", "Team Meeting", Date(2025, 8, 17, 9, 0, 0, AsiaTokyo),
                  Date(2025, 8, 17, 10, 30, 0, AsiaTokyo), FALSE, "Room A"),
      domainEvent("t2", "Prep", Date(2025, 8, 17, 0, 0, 0, AsiaTokyo),
                  Date(2025, 8, 18, 0, 0, 0, AsiaTokyo), TRUE, "")>>

ReadmeTomorrow ==
    <<domainEvent("n1", "Client Meeting",
                  Date(2025, 8, 18, 14, 0, 0, AsiaTokyo),
                  Date(2025, 8, 18, 15, 0, 0, AsiaTokyo), FALSE, "Online")>>

ReadmeExample1 ==
    <<"Google Calendar LINE Notifier", "\n",
      "\n",
      "Today ", "8/17", "(", "Nichi", ") (", "2", " events):", "\n",
      "* ", "09:00", "~", "10:30", " ", "Team Meeting", "\n",
      "   @ ", "Room A", "\n",
      "* ", "Prep", " (all day)", "\n",
      "\n",
      "\n",
      "Next day ", "8/18", "(", "Getsu", ") (", "1", " events):", "\n",
      "* ", "14:00", "~", "15:00", " ", "Client Meeting", "\n",
      "   @ ", "Online", "\n">>

\* the second example of README.md
ReadmeExample2 ==
    <<"Google Calendar LINE Notifier", "\n",
      "\n",
      "Today ", "8/17", "(", "Nichi", ")", ": no events", "\n",
      "\n",
      "\n",
      "Next day ", "8/18", "(", "Getsu", ")", ": no events", "\n">>

\* C14: whatever the two lists, the message is the fixed header line, one
\* blank line, the section of day A, exactly two newlines, the section of
\* day B and nothing after it; the inputs of the README examples give the
\* text of the README examples.
C14_MessageStructure ==
    \A i \in 1..Len(pushRequests) :
        /\ AfterLastNewline(Message(i)) = <<>>
        /\ TwoSections(Lines(Message(i)),
                       SectionLength(sendCalls[i].todayEvents),
                       SectionLength(sendCalls[i].tomorrowEvents))
        /\ (/\ sendCalls[i].todayEvents = ReadmeToday
            /\ sendCalls[i].tomorrowEvents = ReadmeTomorrow
            /\ sendCalls[i].clock = Date(2025, 8, 16, 21, 0, 0, UTC))
           => Message(i) = ReadmeExample1
        /\ (/\ sendCalls[i].todayEvents = <<>>
            /\ sendCalls[i].tomorrowEvents = <<>>
            /\ sendCalls[i].clock = Date(2025, 8, 16, 21, 0, 0, UTC))
           => Message(i) = ReadmeExample2

\* in SpecNotify: the first README example has been rendered
ReadmeExample1Rendered ==
    /\ Len(pushRequests) >= 1
    /\ sendCalls[1].todayEvents = ReadmeToday
    /\ sendCalls[1].tomorrowEvents = ReadmeTomorrow
    /\ Message(1) = ReadmeExample1

\* the lines of the two sections, given the length of the first
SectionA(L, lenA) == SubSeq(L, 3, 2 + lenA)
SectionB(L, lenA) == SubSeq(L, 5 + lenA, Len(L))

\* the indices of the bullet lines of a sequence of lines
Bullets(S) == {i \in 1..Len(S) : S[i] # <<>> /\ S[i][1] = "* "}

JapaneseWeekdays == {"Nichi", "Getsu", "Ka", "Sui", "Moku", "Kin", "Do"}

\* S is the section of a day: when events is empty its one line says so and
\* no event line follows; otherwise its first line carries the label, the
\* date of day, its weekday in Japanese and the number of events, and there
\* are as many bullet lines as events
SectionStates(S, label, day, events) ==
    /\ Len(S) >= 1
    /\ SubSeq(S[1], 1, 4) = <<label, FormatMonthDay(day), "(",
                              getWeekdayJapanese(Weekday(day))>>
    /\ S[1][4] \in JapaneseWeekdays
    /\ (events = <<>>) <=> (": no events" \in {S[1][k] : k \in 1..Len(S[1])})
    /\ IF events = <<>>
       THEN /\ S[1] = <<label, FormatMonthDay(day), "(",
                        getWeekdayJapanese(Weekday(day)), ")", ": no events">>
            /\ Len(S) = 1
       ELSE /\ S[1] = <<label, FormatMonthDay(day), "(",
                        getWeekdayJapanese(Weekday(day)), ") (",
                        ToString(Len(events)), " events):">>
            /\ Cardinality(Bullets(S)) = Len(events)

\* C15: each day's section on its own says that there are no events, and
\* lists none, exactly when that day's list is empty; otherwise its header
\* carries the day label, the date, the Japanese weekday and a count equal
\* to the length of that day's list.
C15_SectionPerDay ==
    \A i \in 1..Len(pushRequests) :
        /\ SectionStates(
              SectionA(Lines(Message(i)),
                       SectionLength(sendCalls[i].todayEvents)),
              "Today ", In(sendCalls[i].clock, AsiaTokyo),
              sendCalls[i].todayEvents)
        /\ SectionStates(
              SectionB(Lines(Message(i)),
                       SectionLength(sendCalls[i].todayEvents)),
              "Next day ", Add(In(sendCalls[i].clock, AsiaTokyo), 24 * 3600),
              sendCalls[i].tomorrowEvents)

C15_Witness ==
    /\ Len(pushRequests) >= 1
    /\ sendCalls[1].todayEvents = <<>>
    /\ Len(sendCalls[1].tomorrowEvents) = 2
    /\ Lines(Message(1))[3] = <<"Today ", "12/31", "(", "Ka", ")", ": no events">>
    /\ Lines(Message(1))[6]
         = <<"Next day ", "1/1", "(", "Sui", ") (", "2", " events):">>

\* the start and end of the timed sample events as a 24-hour clock shows them
WrittenRange ==
    [t1 |-> <<"09:00", "10:30">>, t3 |-> <<"12:05", "13:00">>,
     n1 |-> <<"14:00", "15:00">>]

\* the lines an event is to take in the message
EventLines(event) ==
    << IF event.IsAllDay
       THEN <<"* ", event.Title, " (all day)">>
       ELSE <<"* ", WrittenRange[event.ID][1], "~", WrittenRange[event.ID][2],
              " ", event.Title>> >>
    \o (IF event.Location # ""
        THEN << <<"   @ ", event.Location>> >>
        ELSE <<>>)

RECURSIVE EventsLines(_)
EventsLines(events) ==
    IF events = <<>> THEN <<>>
    ELSE EventLines(Head(events)) \o EventsLines(Tail(events))

\* C16: every event takes one bullet line, the title with the all-day mark
\* and no time range when IsAllDay is true, the 24-hour start and end before
\* the title when it is false, and right after it an indented location line
\* exactly when Location is not empty.
C16_EventLines ==
    \A i \in 1..Len(pushRequests) :
        /\ Tail(SectionA(Lines(Message(i)),
                         SectionLength(sendCalls[i].todayEvents)))
             = EventsLines(sendCalls[i].todayEvents)
        /\ Tail(SectionB(Lines(Message(i)),
                         SectionLength(sendCalls[i].todayEvents)))
             = EventsLines(sendCalls[i].tomorrowEvents)

C16_Witness ==
    /\ Len(pushRequests) >= 1
    /\ Len(sendCalls[1].todayEvents) = 1
    /\ Len(sendCalls[1].tomorrowEvents) = 1
    /\ sendCalls[1].todayEvents[1].ID = "t3"
    /\ sendCalls[1].tomorrowEvents[1].ID = "n2"
    /\ Lines(Message(1))[4] = <<"* ", "12:05", "~", "13:00", " ", "Lunch">>
    /\ Lines(Message(1))[8] = <<"* ", "Offsite", " (all day)">>
    /\ Lines(Message(1))[9] = <<"   @ ", "Kyoto">>

\* the title a bullet line shows
TitleOfBullet(line) ==
    IF line[Len(line)] = " (all day)" THEN line[2] ELSE line[Len(line)]

\* the titles of the bullet lines of L, in order
RECURSIVE BulletTitles(_)
BulletTitles(L) ==
    IF L = <<>> THEN <<>>
    ELSE (IF Head(L) # <<>> /\ Head(L)[1] = "* "
          THEN <<TitleOfBullet(Head(L))>> ELSE <<>>)
         \o BulletTitles(Tail(L))

RECURSIVE Titles(_)
Titles(events) ==
    IF events = <<>> THEN <<>>
    ELSE <<Head(events).Title>> \o Titles(Tail(events))

\* the index of the header line of day B
HeaderOfDayB(L) == CHOOSE k \in 1..Len(L) : L[k] # <<>> /\ L[k][1] = "Next day "

\* some list is not in ascending order of start time
Unsorted(events) ==
    \E j \in 1..(Len(events) - 1) :
        events[j].StartTime.unix > events[j + 1].StartTime.unix

\* C17: the bullet lines follow the order of the lists, sorted or not: those
\* of day A's list in its order before the header of day B, those of day
\* B's list in its order after it, none dropped and none added.
C17_InputOrderKept ==
    \A i \in 1..Len(pushRequests) :
        /\ BulletTitles(Lines(Message(i)))
             = Titles(sendCalls[i].todayEvents \o sendCalls[i].tomorrowEvents)
        /\ Cardinality(Bullets(Lines(Message(i))))
             = Len(sendCalls[i].todayEvents) + Len(sendCalls[i].tomorrowEvents)
        /\ BulletTitles(SubSeq(Lines(Message(i)), 1,
                               HeaderOfDayB(Lines(Message(i)))))
             = Titles(sendCalls[i].todayEvents)

C17_Witness ==
    /\ Len(pushRequests) >= 1
    /\ Unsorted(sendCalls[1].todayEvents)
    /\ Unsorted(sendCalls[1].tomorrowEvents)
    /\ BulletTitles(Lines(Message(1)))
         = <<"Lunch", "Team Meeting", "Client Meeting", "Offsite">>

\* C18: two calls with the same two lists give the same message, whatever
\* the instants at which they are made.
C18_SameListsSameMessage ==
    pc = "notifiedTwice"
    => /\ sendCalls[1].todayEvents = sendCalls[2].todayEvents
       /\ sendCalls[1].tomorrowEvents = sendCalls[2].tomorrowEvents
       /\ Message(1) = Message(2)

---------------------------------------------------------------------------
(* Properties of sendPushMessage (specification SpecNotify) *)

\* the endpoint answered call i, with a status other than 200
Rejected(i) ==
    /\ ~sendCalls[i].resp.transportFailed
    /\ sendCalls[i].resp.status # 200

\* C19: sendPushMessage returns nil only when the endpoint answers with
\* status 200; for every other status it returns an error that carries the
\* status code and, when the body is the structured error, the message of
\* the body, followed by the message of the first detail exactly when there
\* are details; status 400 with message "Invalid request" gives an error
\* with 400 and "Invalid request".
C19_RejectionError ==
    \A i \in 1..Len(sendCalls) :
        /\ sendCalls[i].err = NoErr
           => /\ ~sendCalls[i].resp.transportFailed
              /\ sendCalls[i].resp.status = 200
        /\ Rejected(i)
           => /\ sendCalls[i].err # NoErr
              /\ sendCalls[i].err.status = sendCalls[i].resp.status
        /\ (Rejected(i) /\ sendCalls[i].resp.body.k = "json")
           => /\ sendCalls[i].err.msg = ErrPushRejected
              /\ sendCalls[i].err.detail =
                   IF sendCalls[i].resp.body.details = <<>>
                   THEN sendCalls[i].resp.body.message
                   ELSE sendCalls[i].resp.body.message \o " (detail: "
                        \o Head(sendCalls[i].resp.body.details) \o ")"
        /\ sendCalls[i].resp
             = PushResponse(FALSE, 400, JSONBody("Invalid request", <<>>))
           => /\ sendCalls[i].err.status = 400
              /\ sendCalls[i].err.detail = "Invalid request"

C19_Witness ==
    /\ pc = "notifiedTwice"
    /\ sendCalls[1].resp.status = 400
    /\ Len(sendCalls[1].resp.body.details) = 2
    /\ sendCalls[1].err
         = Error(ErrPushRejected, 400, "Invalid request (detail: bad to)")
    /\ sendCalls[2].resp.status = 400
    /\ sendCalls[2].resp.body.details = <<>>
    /\ sendCalls[2].err = Error(ErrPushRejected, 400, "Invalid request")

\* what the JSON decoder says of a body that is not JSON
DecoderErrors == {"EOF", "invalid character"}

\* C20: when the endpoint answers with another status than 200 and a body
\* that is not the structured error, an empty body included, sendPushMessage
\* still returns an error, and of the response that error carries the
\* status code alone: no message and no detail of a body.
C20_UnparsedBodyError ==
    \A i \in 1..Len(sendCalls) :
        (Rejected(i) /\ sendCalls[i].resp.body.k # "json")
        => /\ sendCalls[i].err # NoErr
           /\ sendCalls[i].err.msg = ErrPushUnparsed
           /\ sendCalls[i].err.status = sendCalls[i].resp.status
           /\ sendCalls[i].err.detail \in DecoderErrors

C20_Witness ==
    /\ pc = "notifiedTwice"
    /\ sendCalls[1].resp = PushResponse(FALSE, 204, EmptyBody)
    /\ sendCalls[1].err = Error(ErrPushUnparsed, 204, "EOF")
    /\ sendCalls[2].resp = PushResponse(FALSE, 500, TextBody)
    /\ sendCalls[2].err = Error(ErrPushUnparsed, 500, "invalid character")

\* C21: every call of sendPushMessage hands exactly one request to the HTTP
\* client; it is a POST addressed to the configured user id, with exactly
\* one message, of type "text", whose text is the message built for that
\* call, and with the header Authorization: Bearer <channel access token>.
C21_PushRequestShape ==
    /\ Len(pushRequests) = Len(sendCalls)
    /\ \A i \in 1..Len(pushRequests) :
          /\ pushRequests[i].Method = "POST"
          /\ pushRequests[i].To = userID
          /\ Len(pushRequests[i].Messages) = 1
          /\ pushRequests[i].Messages[1].Type = "text"
          /\ pushRequests[i].Messages[1].Text
               = buildScheduleMessage(sendCalls[i].todayEvents,
                                      sendCalls[i].tomorrowEvents,
                                      sendCalls[i].clock)
          /\ pushRequests[i].Authorization = "Bearer " \o channelAccessToken

C21_Witness ==
    /\ pc = "notifiedTwice"
    /\ Len(pushRequests) = 2
    /\ pushRequests[1].Authorization = "Bearer token"
    /\ pushRequests[1].To = "user"
    /\ pushRequests[1].Messages[1].Text # pushRequests[2].Messages[1].Text
    /\ sendCalls[1].err = NoErr
    /\ sendCalls[2].err # NoErr

---------------------------------------------------------------------------
(* Properties of cancellation (specification Spec) *)

\* C22: once the context of the invocation is done, no call is made to
\* EventsProvider.ListEvents and no SendScheduleNotification call succeeds.
C22_NothingAfterCancellation ==
    [][ctxDone
       => /\ listCalls' = listCalls
          /\ \A i \in (Len(sendCalls) + 1)..Len(sendCalls') :
                sendCalls'[i].err # NoErr]_vars

---------------------------------------------------------------------------
(* Properties of the handler's set-up (specification Spec) *)

\* nothing has been asked of the calendar or of the messaging endpoint
NoCollaboratorCall ==
    /\ listCalls = <<>>
    /\ sendCalls = <<>>
    /\ pushRequests = <<>>

\* C23: when the timezone database does not resolve "Asia/Tokyo", the
\* handler returns the timezone error of NewGoogleCalendarRepository (or,
\* without configuration, the error of config.Load) before Execute is
\* called: no query and no push request is made, and no query is ever made
\* in an environment that does not resolve the identifier.
C23_UnresolvedTimezoneFails ==
    /\ (pc # "start" /\ "Asia/Tokyo" \notin env.zoneinfo)
       => /\ pc = "setupFailed"
          /\ ~ret.skipped
          /\ ret.err # NoErr
          /\ cfg.err = NoErr => ret.err = Error(ErrJSTLoad, 0, "")
          /\ NoCollaboratorCall
    /\ ~NoCollaboratorCall => "Asia/Tokyo" \in env.zoneinfo

C23_Witness ==
    /\ pc = "setupFailed"
    /\ env.zoneinfo = {}
    /\ cfg.cfg.LineChannelAccessToken = <<"token">>
    /\ ret.err = Error(ErrJSTLoad, 0, "")
    /\ NoCollaboratorCall

\* the same of the earlier handler (specification SpecLegacy): when
\* calendar.NewClient cannot resolve the configured TIMEZONE, the handler
\* returns its error before any query or push request
LegacyUnresolvedTimezoneFails ==
    (/\ pc # "legacyStart"
     /\ cfg.err = NoErr
     /\ ZoneName(legacyTimezone(env)) \notin env.zoneinfo \cup {"", "UTC"})
    => /\ pc = "setupFailed"
       /\ ret = [skipped |-> FALSE, err |-> Error(ErrTimezoneLoad, 0, "")]
       /\ NoCollaboratorCall

LegacyUnresolvedTimezoneReached ==
    /\ pc = "setupFailed"
    /\ env.vars["TIMEZONE"] = <<"Mars/Olympus">>
    /\ ret.err.msg = ErrTimezoneLoad

\* the value is missing, empty or white space only
Blank(v) == v = NoParameter \/ \A i \in 1..Len(v) : v[i] \in Whitespace

\* v without the white space around it
Stripped(v) ==
    IF Blank(v)
    THEN <<>>
    ELSE SubSeq(v,
                CHOOSE i \in 1..Len(v) :
                    /\ v[i] \notin Whitespace
                    /\ \A j \in 1..(i - 1) : v[j] \in Whitespace,
                CHOOSE i \in 1..Len(v) :
                    /\ v[i] \notin Whitespace
                    /\ \A j \in (i + 1)..Len(v) : v[j] \in Whitespace)

\* the three required values of the environment e, where config.Load
\* reads them: credentials, channel access token, user id
RequiredValues(e) ==
    IF e.vars["AWS_LAMBDA_FUNCTION_NAME"] # <<>>
    THEN <<e.params[GoogleCredsParam], e.params[LineTokenParam],
           e.params[LineUserIdParam]>>
    ELSE <<e.vars["GOOGLE_CREDENTIALS"], e.vars["LINE_CHANNEL_ACCESS_TOKEN"],
           e.vars["LINE_USER_ID"]>>

RequiredValueMissing(e) ==
    \E i \in 1..3 : Blank(RequiredValues(e)[i])

\* C24: when one of the three required values is missing, empty or white
\* space only, config.Load returns an error and a nil Config, and the
\* handler returns that error before any query or push request; when none
\* is, config.Load returns the three values without the white space around
\* them and no error.  The environments of Environments do not depend on
\* the state and are looked at once, in the initial state.
C24_ConfigFailFast ==
    /\ (pc # "start" /\ RequiredValueMissing(env))
       => /\ cfg.err # NoErr
          /\ cfg.cfg = NilConfig
          /\ pc = "setupFailed"
          /\ ret = [skipped |-> FALSE, err |-> cfg.err]
          /\ NoCollaboratorCall
    /\ (pc # "start" /\ ~RequiredValueMissing(env))
       => /\ cfg.err = NoErr
          /\ cfg.cfg # NilConfig
    /\ pc = "start"
       => \A e \in Environments :
             IF RequiredValueMissing(e)
             THEN Load(e).err # NoErr /\ Load(e).cfg = NilConfig
             ELSE /\ Load(e).err = NoErr
                  /\ Load(e).cfg.GoogleCredentials
                       = Stripped(RequiredValues(e)[1])
                  /\ Load(e).cfg.LineChannelAccessToken
                       = Stripped(RequiredValues(e)[2])
                  /\ Load(e).cfg.LineUserID = Stripped(RequiredValues(e)[3])

C24_Witness ==
    /\ pc = "setupFailed"
    /\ env.vars["AWS_LAMBDA_FUNCTION_NAME"] = <<>>
    /\ env.vars["GOOGLE_CREDENTIALS"] = <<"{credentials}">>
    /\ env.vars["LINE_USER_ID"] = <<"\t", "\n">>
    /\ cfg = [cfg |-> NilConfig, err |-> Error(ErrEnvNotSet, 0, "LINE_USER_ID")]
    /\ ret.err = cfg.err
    /\ NoCollaboratorCall

---------------------------------------------------------------------------
(* Properties of the order of Execute's steps (specification Spec) *)

\* C25: the first query is for today's window and the second, issued only
\* when today's retrieval succeeded, for tomorrow's; the notifier is called
\* only when both retrievals succeeded; and a retrieval that failed, or
\* that a conversion unwound, is the last collaborator call of the
\* invocation, as is a delivery that failed.
C25_OrderedAbortOnFailure ==
    /\ Len(listCalls) >= 1 => listCalls[1] = queryWindow(today)
    /\ Len(listCalls) >= 2
       => /\ listCalls[2] = queryWindow(tomorrow)
          /\ todayRes.status = "ok"
    /\ tomorrowRes.status # "none" => todayRes.status = "ok"
    /\ sendCalls # <<>> => BothRetrieved /\ Len(listCalls) = 2
    /\ todayRes.status \in {"err", "panic"}
       => /\ Len(listCalls) = 1
          /\ tomorrowRes.status = "none"
          /\ sendCalls = <<>> /\ pushRequests = <<>>
    /\ tomorrowRes.status \in {"err", "panic"}
       => /\ Len(listCalls) = 2
          /\ sendCalls = <<>> /\ pushRequests = <<>>
    /\ (sendCalls # <<>> /\ sendCalls[1].err # NoErr)
       => /\ Len(sendCalls) = 1 /\ Len(pushRequests) = 1
          /\ pc = "done"
          /\ ret = [skipped |-> FALSE, err |-> sendCalls[1].err]

C25_Witness ==
    /\ pc = "done"
    /\ BothRetrieved
    /\ listCalls = <<queryWindow(today), queryWindow(tomorrow)>>
    /\ Len(sendCalls) = 1
    /\ sendCalls[1].resp.transportFailed
    /\ ret.err = Error(ErrPushTransport, 0, "")

---------------------------------------------------------------------------
(* Properties of IsAllDay (specification SpecConvert) *)

\* C26: of a converted event IsAllDay is true exactly when the start has no
\* timestamp (and so was resolved from its date), whatever the end is made
\* of: every provider event with the same start whose conversion succeeds
\* has the same IsAllDay; a start with both a timestamp and a date gives an
\* event that is not all-day.
C26_AllDayFromStartOnly ==
    (pc = "converted" /\ converted.status = "ok")
    => /\ converted.ev.IsAllDay = (rawEvent.Start.DateTime.k = "empty")
       /\ (/\ rawEvent.Start.DateTime.k # "empty"
           /\ rawEvent.Start.Date.k # "empty")
          => ~converted.ev.IsAllDay
       /\ \A other \in {o \in RawEvents : o.Start = rawEvent.Start} :
             convertToEvent(other, timezone).status = "ok"
             => convertToEvent(other, timezone).ev.IsAllDay
                  = converted.ev.IsAllDay

C26_Witness ==
    /\ pc = "converted"
    /\ converted.status = "ok"
    /\ rawEvent.Start.DateTime.k = "rfc3339"
    /\ rawEvent.Start.Date.k = "date"
    /\ rawEvent.End.DateTime.k = "empty"
    /\ rawEvent.End.Date.k = "date"
    /\ ~converted.ev.IsAllDay

---------------------------------------------------------------------------
(* Properties of the inclusive window (specification SpecLegacy) *)

\* the window from 00:00:00 to 23:59:59 of the date of D, written with the
\* offset of the client's timezone
InclusiveWindowOf(D, tz) ==
    [timeMin |-> Timestamp(Year(D), Month(D), Day(D), 0, 0, 0, tz),
     timeMax |-> Timestamp(Year(D), Month(D), Day(D), 23, 59, 59, tz)]

\* C27: the query the earlier handler makes for a day D (today, then
\* tomorrow) runs from 00:00:00 to 23:59:59 of the date of D in the
\* client's timezone, so it ends before the first instant of the date
\* after D and no event of that date lies in it.
C27_InclusiveWindowWithinDay ==
    /\ todayRes.status # "none"
       => /\ todayRes.call = InclusiveWindowOf(today, timezone)
          /\ WrittenInstant(todayRes.call.timeMax)
               < WrittenInstant(todayRes.call.timeMin) + 24 * 3600
    /\ tomorrowRes.status # "none"
       => /\ tomorrowRes.call = InclusiveWindowOf(tomorrow, timezone)
          /\ WrittenInstant(tomorrowRes.call.timeMax)
               < WrittenInstant(tomorrowRes.call.timeMin) + 24 * 3600

---------------------------------------------------------------------------
(* Properties of the timezone of a run (specification Spec) *)

\* C28: whatever timezone the repository was constructed with, the window
\* of every query is written in that timezone, the one every returned
\* event's start and end are converted into.
C28_OneTimezone ==
    /\ \A i \in 1..Len(listCalls) :
          /\ listCalls[i].timeMin.off = timezone
          /\ listCalls[i].timeMax.off = timezone
    /\ \A res \in {todayRes, tomorrowRes} :
          \A j \in 1..Len(res.events) :
             /\ res.events[j].StartTime.loc = timezone
             /\ res.events[j].EndTime.loc = timezone

---------------------------------------------------------------------------
(* Properties of the dates of the message (specification Spec) *)

\* the first line of the section of today and of that of tomorrow in the
\* message of the i-th call
HeaderA(i) ==
    SectionA(Lines(Message(i)), SectionLength(sendCalls[i].todayEvents))[1]
HeaderB(i) ==
    SectionB(Lines(Message(i)), SectionLength(sendCalls[i].todayEvents))[1]

\* C29: in every message that is pushed, the header of the first section
\* carries the date and the weekday of the date today that was queried and
\* the header of the second those of the date tomorrow, however long the
\* retrievals took.
C29_HeaderDatesAreQueriedDates ==
    \A i \in 1..Len(pushRequests) :
        /\ HeaderA(i)[2] = FormatMonthDay(today)
        /\ HeaderA(i)[4] = getWeekdayJapanese(Weekday(today))
        /\ HeaderB(i)[2] = FormatMonthDay(tomorrow)
        /\ HeaderB(i)[4] = getWeekdayJapanese(Weekday(tomorrow))

---------------------------------------------------------------------------
(* Properties of the skip (specification Spec) *)

\* C30: Execute returns skipped = true only when the provider returned no
\* event for today and none for tomorrow; when it returned an event for
\* either day, an Execute that returns ends in Delivered or in Failed.
C30_SkippedOnlyWhenSourceEmpty ==
    pc = "done"
    => /\ ret.skipped
          => todayRes.items = <<>> /\ tomorrowRes.items = <<>>
       /\ (todayRes.items # <<>> \/ tomorrowRes.items # <<>>)
          => Delivered \/ Failed

====
